---- MODULE Spec2Model ----
(***************************************************************************)
(* Verification model of the Lindenmayer-system generator.                 *)
(*                                                                         *)
(* LSystem (Lsystem.h / Lsystem.cpp), its pseudorandom number generator    *)
(* CRandom (Random.h / Random.cpp), the turtle interpreter and the menu    *)
(* commands of CMain are modelled as state machines: Spec for the          *)
(* generator, TurtleSpec for the interpreter run on a generated string,    *)
(* RandomSpec for direct calls of CRandom, TermSpec for the two under weak *)
(* fairness, MenuSpec for the WM_COMMAND handlers of WndProc, and          *)
(* CoverSpec for Generate on rule lists of chosen probabilities and PRNG   *)
(* states.                                                                 *)
(*                                                                         *)
(* Representation choices                                                  *)
(*  - a std::wstring is a sequence of one-character strings;               *)
(*  - a UINT is a pair <<hi, lo>> of 16-bit halves, so that every          *)
(*    operation of xorshift128 keeps its 32-bit width;                     *)
(*  - the probability of a production is kept as the integer number of     *)
(*    hundredths of its literal; in Generate it is the single-precision    *)
(*    float nearest to that literal, randf() is (float)randn()/2^32, and   *)
(*    the sum fProb and the test fRand <= fProb are made in single         *)
(*    precision;                                                           *)
(*  - the two pointers pSrc, pDest and m_pResult are indices 0/1 into the  *)
(*    array m_wstrBuffer;                                                  *)
(*  - LSystem::Generate is a sequence of steps driven by pc: the call,     *)
(*    the start of a pass, the rewrite of one source symbol, the end of a  *)
(*    pass and the return.  No other operation runs while it is active;    *)
(*  - a float of the interpreter is a record [m, e] of value m * 2^e with  *)
(*    a 24-bit significand, and sums and products round to nearest, ties   *)
(*    to even, as single precision does; sinf and cosf are tabulated for   *)
(*    the headings reached by quarter turns, and only strings whose moves  *)
(*    are made at those headings are drawn;                                *)
(*  - CMain::Draw is a sequence of steps driven by tpc: the call, one step *)
(*    per symbol of the string in each of the two passes, the end of the   *)
(*    measuring pass and the end of the drawing pass;                      *)
(*  - a menu command is one step: the handler runs to its end, Generate    *)
(*    and Draw included, before the next message is taken; the bitmap and  *)
(*    m_rectDirty are recorded as the string, the type and the pen width   *)
(*    of the last Draw, which clears both before it draws; the generation  *)
(*    counts of CMain::Generate are capped at MaxGen;                      *)
(*  - an operation the language leaves undefined (pop of an empty stack,   *)
(*    remainder of a division by zero) ends the program or continues with  *)
(*    one of the values the hardware can leave.                            *)
(***************************************************************************)
EXTENDS Integers, Sequences, FiniteSets, TLC

\* ------------------------------------------------------------------------
\* Bounds of the model
\* ------------------------------------------------------------------------
MaxGen == 2          \* largest argument n of Generate(n)
MaxRules == 2        \* largest number of productions held at one time
MaxRootSets == 1     \* largest number of "Root is" lines in the rule string
MaxCalls == 2        \* largest number of Generate calls in one run
MaxDraws == 3        \* largest number of direct calls of randn in one run
MaxCommands == 2     \* largest number of WM_COMMAND messages in one run

\* ------------------------------------------------------------------------
\* Program constants
\* ------------------------------------------------------------------------
HalfBits == 16       \* a UINT is two halves of 16 bits
HalfMod == 65536     \* 2^16
ProbOne == 100       \* the probability 1.0f, in hundredths

\* ------------------------------------------------------------------------
\* Inputs
\* ------------------------------------------------------------------------
\* Root strings handed to SetRoot.
Roots == { <<"F", "F">>, <<"A", "B">> }

\* Productions handed to AddRule: LProduction(lhs, rhs, fProb).
LProduction(lhs, rhs, fProb) == [m_chLHS |-> lhs, m_wstrRHS |-> rhs, m_fProb |-> fProb]

Productions ==
  { LProduction("A", <<"A", "A">>, 100),
    LProduction("F", <<"A">>, 30),
    LProduction("F", <<"B">>, 70) }

\* Values returned by the four calls of ::rand() in CRandom::srand, for the
\* timer-derived seeds the constructor may use.
RandSeqs == { <<0, 0, 0, 0>>, <<41, 18467, 6334, 26500>> }

\* Values returned by the four calls of ::rand() after ::srand(0), ::srand(2)
\* and ::srand(0x7FFF), with those of RandSeqs.
SeededSeqs ==
  RandSeqs \cup { <<38, 7719, 21238, 2437>>, <<45, 29216, 24198, 17795>>,
                  <<8737, 10287, 8992, 21422>> }

\* Arguments of CRandom::srand: the default -1, another negative seed, and
\* non-negative seeds from 0 to 0x7FFF.
Seeds == { 0 - 5, 0 - 1, 0, 1, 2, 32767 }

\* Values of timeGetTime() at a call of CRandom::srand.
TimerValues == { 1, 32768, 32770, 65535 }

\* The four values ::rand() returns after ::srand(s), for the arguments s
\* that Seeds and TimerValues lead to.
CRand(s) ==
  CASE s = 0 -> <<38, 7719, 21238, 2437>>
    [] s = 1 -> <<41, 18467, 6334, 26500>>
    [] s = 2 -> <<45, 29216, 24198, 17795>>
    [] s = 32767 -> <<8737, 10287, 8992, 21422>>

\* Arguments (i, j) of randn(i, j): a die, a single value, a percentage, a
\* range reaching the largest UINT, the upper half, the full range, and a
\* pair with i > j.
RangePairs ==
  { << <<0, 1>>, <<0, 6>> >>,
    << <<0, 7>>, <<0, 7>> >>,
    << <<0, 0>>, <<0, 99>> >>,
    << <<0, 5>>, <<65535, 65535>> >>,
    << <<32768, 0>>, <<65535, 65535>> >>,
    << <<0, 0>>, <<65535, 65535>> >>,
    << <<0, 6>>, <<0, 1>> >> }

\* ------------------------------------------------------------------------
\* 32-bit unsigned arithmetic on <<hi, lo>>
\* ------------------------------------------------------------------------
RECURSIVE XorBits(_, _, _)
XorBits(a, b, k) ==
  IF k = 0 THEN 0
  ELSE (((a % 2) + (b % 2)) % 2) + (2 * XorBits(a \div 2, b \div 2, k - 1))

\* x ^ y; each operand is evaluated once, before the bits are combined.
UXor(x, y) ==
  CHOOSE z \in { << XorBits(a[1], b[1], HalfBits), XorBits(a[2], b[2], HalfBits) >> :
                   a \in { x }, b \in { y } } : TRUE

\* x << 11, truncated to 32 bits
UShl11(x) == << ((x[1] * 2048) % HalfMod) + (x[2] \div 32), (x[2] * 2048) % HalfMod >>

\* x >> 8
UShr8(x) == << x[1] \div 256, ((x[1] % 256) * 256) + (x[2] \div 256) >>

\* x >> 19
UShr19(x) == << 0, x[1] \div 8 >>

\* x + y, truncated to 32 bits
UAdd(x, y) ==
  LET lo == x[2] + y[2]
  IN << (x[1] + y[1] + (lo \div HalfMod)) % HalfMod, lo % HalfMod >>

\* x - y, truncated to 32 bits
USub(x, y) ==
  LET lo == (HalfMod + x[2]) - y[2]
      borrow == 1 - (lo \div HalfMod)
  IN << (((HalfMod + x[1]) - y[1]) - borrow) % HalfMod, lo % HalfMod >>

\* x <= y
ULeq(x, y) == x[1] < y[1] \/ (x[1] = y[1] /\ x[2] <= y[2])

\* x << 1, truncated to 32 bits
UShl1(x) == << ((x[1] * 2) % HalfMod) + (x[2] \div 32768), (x[2] * 2) % HalfMod >>

\* Bit b of x, bit 0 the least significant.
UBit(x, b) ==
  IF b < HalfBits THEN (x[2] \div (2 ^ b)) % 2
  ELSE (x[1] \div (2 ^ (b - HalfBits))) % 2

\* Long division by n # 0: the remainder of the top k bits of x.  The
\* remainder of the bits before is doubled, takes the next bit of x, and n
\* is subtracted when it fits.
RECURSIVE URem(_, _, _)
URem(x, n, k) ==
  IF k = 0 THEN << 0, 0 >>
  ELSE LET rem == URem(x, n, k - 1)
           sh == UAdd(UShl1(rem), << 0, UBit(x, (2 * HalfBits) - k) >>)
       IN IF rem[1] \div 32768 = 1 \/ ULeq(n, sh) THEN USub(sh, n) ELSE sh

\* x % n for n # 0; the dividend is evaluated once, before the division.
UMod(x, n) == CHOOSE rem \in { URem(dividend, n, 2 * HalfBits) : dividend \in { x } } : TRUE

\* x * r truncated to 32 bits, for a value r of ::rand() (r < 2^15)
UMulRand(x, r) ==
  LET lo == x[2] * r
      hi == x[1] * r + (lo \div HalfMod)
  IN << hi % HalfMod, lo % HalfMod >>

\* ------------------------------------------------------------------------
\* CRandom
\* ------------------------------------------------------------------------
\* CRandom::srand: the state words built from four values of ::rand().
srand(q) ==
  LET s0 == << 0, q[1] >>
      s1 == UMulRand(s0, q[2])
      s2 == UMulRand(s1, q[3])
      s3 == UMulRand(s2, q[4])
  IN << s0, s1, s2, s3 >>

\* CRandom::randn() with the state words moved up in ascending order, so
\* that each takes the value just written to the one before it.
randn_copyup(u) ==
  LET s1 == UXor(u[4], UShl11(u[4]))
      s2 == UXor(s1, UShr8(s1))
      s3 == UXor(s2, u[1])
      s4 == UXor(s3, UShr19(u[1]))
  IN [val |-> s4, state |-> << s4, u[1], u[1], u[1] >>]

\* CRandom::randn(): xorshift128.  u is m_uState as <<u[1], .., u[4]>> for
\* m_uState[0..3]; the result is the value returned and the new state.
randn(u) ==
  LET s1 == UXor(u[4], UShl11(u[4]))
      s2 == UXor(s1, UShr8(s1))
      s3 == UXor(s2, u[1])
      s4 == UXor(s3, UShr19(u[1]))
  IN [val |-> s4, state |-> << s4, u[1], u[2], u[3] >>]

\* The width j - i + 1 of the range of randn(i, j), in 32 bits.
RangeWidth(i, j) == UAdd(USub(j, i), << 0, 1 >>)

\* CRandom::randn(i, j) for a width other than 0.
randnRange(u, i, j) ==
  LET r == randn(u)
  IN [val |-> UAdd(UMod(r.val, RangeWidth(i, j)), i), state |-> r.state]

\* ------------------------------------------------------------------------
\* Single-precision arithmetic
\* ------------------------------------------------------------------------
\* A float is a record [m, e] of value m * 2^e with 2^23 <= |m| < 2^24, or
\* m = 0 and e = 0.  Sums and products are rounded to 24 significant bits,
\* to nearest, ties to even.  Exponents stay far from the limits of the
\* format in every run, so infinities and subnormals are not represented.
MantBits == 24       \* significant bits of a float
GuardBits == 3       \* guard, round and sticky bit of an addition

Pow2(k) == 2 ^ k

Abs(x) == IF x < 0 THEN 0 - x ELSE x

Sign(x) == IF x < 0 THEN 0 - 1 ELSE 1

RECURSIVE BitLen(_)
BitLen(a) == IF a = 0 THEN 0 ELSE 1 + BitLen(a \div 2)

FZero == [m |-> 0, e |-> 0]

\* a / 2^k rounded to nearest, ties to even (a >= 0, k >= 0).
RoundShift(a, k) ==
  IF k = 0 THEN a
  ELSE LET q == a \div Pow2(k)
           rem == a % Pow2(k)
           half == Pow2(k - 1)
       IN IF rem > half \/ (rem = half /\ q % 2 = 1) THEN q + 1 ELSE q

\* The float nearest to sg * a * 2^e (a >= 0), the arguments sgn, abs, exp
\* evaluated once.
FNorm(sgn, abs, exp) ==
  CHOOSE f \in
    { IF a = 0 THEN FZero
      ELSE LET n == BitLen(a)
           IN IF n <= MantBits
              THEN [m |-> sg * a * Pow2(MantBits - n), e |-> e - (MantBits - n)]
              ELSE LET q == RoundShift(a, n - MantBits)
                   IN IF q = Pow2(MantBits)
                      THEN [m |-> sg * Pow2(MantBits - 1), e |-> e + (n - MantBits) + 1]
                      ELSE [m |-> sg * q, e |-> e + (n - MantBits)] :
      sg \in { sgn }, a \in { abs }, e \in { exp } } : TRUE

\* float + float, the operands evaluated once.
FAdd(left, right) ==
  CHOOSE f \in
    { IF x.m = 0 THEN y
      ELSE IF y.m = 0 THEN x
      ELSE LET big == IF x.e >= y.e THEN x ELSE y
               small == IF x.e >= y.e THEN y ELSE x
               diff == big.e - small.e
           IN IF diff > MantBits + GuardBits - 1 THEN big
              ELSE LET a == Abs(small.m) * Pow2(GuardBits)
                       q == a \div Pow2(diff)
                       sticky == IF a % Pow2(diff) # 0 /\ q % 2 = 0 THEN 1 ELSE 0
                       t == (big.m * Pow2(GuardBits)) + (Sign(small.m) * (q + sticky))
                   IN FNorm(Sign(t), Abs(t), big.e - GuardBits) :
      x \in { left }, y \in { right } } : TRUE

FNeg(x) == [m |-> 0 - x.m, e |-> x.e]

\* float - float
FSub(x, y) == FAdd(x, FNeg(y))

\* float * float: the 48-bit product of the mantissas is formed from 12-bit
\* limbs and rounded once.  The operands are evaluated once.
FMul(left, right) ==
  CHOOSE f \in
    { IF x.m = 0 \/ y.m = 0 THEN FZero
      ELSE LET a == Abs(x.m)
               b == Abs(y.m)
               a1 == a \div 4096
               a0 == a % 4096
               b1 == b \div 4096
               b0 == b % 4096
               mid == (a1 * b0) + (a0 * b1)
               low == (a0 * b0) + ((mid % 4096) * 4096)
               hi == (a1 * b1) + (mid \div 4096) + (low \div Pow2(MantBits))
               lo == low % Pow2(MantBits)
               sgn == Sign(x.m) * Sign(y.m)
               wide == hi >= Pow2(MantBits - 1)
               q0 == IF wide THEN hi ELSE (2 * hi) + (lo \div Pow2(MantBits - 1))
               rem == IF wide THEN lo ELSE lo % Pow2(MantBits - 1)
               half == IF wide THEN Pow2(MantBits - 1) ELSE Pow2(MantBits - 2)
               e0 == x.e + y.e + (IF wide THEN MantBits ELSE MantBits - 1)
               q == IF rem > half \/ (rem = half /\ q0 % 2 = 1) THEN q0 + 1 ELSE q0
           IN IF q = Pow2(MantBits) THEN [m |-> sgn * Pow2(MantBits - 1), e |-> e0 + 1]
              ELSE [m |-> sgn * q, e |-> e0] :
      x \in { left }, y \in { right } } : TRUE

\* (float)n for an int n
FromInt(n) == FNorm(Sign(n), Abs(n), 0)

\* int(std::floor(x))
FFloor(x) ==
  IF x.e >= 0 THEN x.m * Pow2(x.e)
  ELSE IF 0 - x.e > MantBits THEN (IF x.m < 0 THEN 0 - 1 ELSE 0)
  ELSE x.m \div Pow2(0 - x.e)

\* int(std::ceil(x))
FCeil(x) == 0 - FFloor(FNeg(x))

\* float <= int
FLeqInt(x, n) == FCeil(x) <= n

\* 0 <= float
FNonNeg(x) == x.m >= 0

\* float <= float
FLeq(x, y) == FSub(x, y).m <= 0

\* float < float
FLess(x, y) == FSub(x, y).m < 0

\* (float)w for the UINT w: the 32 bits are rounded to 24, to nearest, ties
\* to even.
FloatOfUINT(w) ==
  IF w[1] < 256 THEN FNorm(1, (w[1] * HalfMod) + w[2], 0)
  ELSE LET k == BitLen(w[1]) - 8
           q == (w[1] * Pow2(HalfBits - k)) + (w[2] \div Pow2(k))
           rem == w[2] % Pow2(k)
           half == Pow2(k - 1)
           up == IF rem > half \/ (rem = half /\ q % 2 = 1) THEN q + 1 ELSE q
       IN IF up = Pow2(MantBits) THEN [m |-> Pow2(MantBits - 1), e |-> k + 1]
          ELSE [m |-> up, e |-> k]

\* CRandom::randf applied to the word w that randn() returns:
\* (float)w/(float)0xFFFFFFFF.  The divisor (float)0xFFFFFFFF is 2^32, and
\* the division by it is exact.
randf(w) ==
  LET x == FloatOfUINT(w)
  IN IF x.m = 0 THEN FZero ELSE [m |-> x.m, e |-> x.e - (2 * HalfBits)]

\* Binary long division rem/den continued until the quotient q has 27 bits.
RECURSIVE DivBits(_, _, _, _)
DivBits(rem, den, q, e) ==
  IF q >= Pow2(MantBits + GuardBits - 1) THEN [q |-> q, rem |-> rem, e |-> e]
  ELSE LET bit == IF 2 * rem >= den THEN 1 ELSE 0
       IN DivBits((2 * rem) - (bit * den), den, (2 * q) + bit, e - 1)

\* The float a probability of c hundredths is stored as: the float nearest
\* to c/100, as the literals 0.33f, 0.34f of the callers are converted.
FProb(c) ==
  IF c = 0 THEN FZero
  ELSE LET d == DivBits(c % ProbOne, ProbOne, c \div ProbOne, 0)
       IN FNorm(1, (2 * d.q) + (IF d.rem # 0 THEN 1 ELSE 0), d.e - 1)

\* RandfLeq with the test written fRand < fProb.
RandfLeq_strict(w, fProb) == FLess(randf(w), fProb)

\* fRand <= fProb for fRand = randf() on the word w that randn() returns.
RandfLeq(w, fProb) == FLeq(randf(w), fProb)

\* ------------------------------------------------------------------------
\* State
\* ------------------------------------------------------------------------
VARIABLES
  m_uState,          \* CRandom::m_uState of LSystem::m_cRandom
  m_wstrRoot,        \* root string
  m_mapRules,        \* lhs -> sequence of productions, in insertion order
  m_wstrRuleString,  \* printable rule string
  m_wstrBuffer,      \* the two generation buffers, indexed 0 and 1
  m_pResult,         \* index of the buffer GetString() returns
  m_bStochastic,     \* a production with probability < 1 was added
  m_nGenerations,    \* argument of the last Generate
  pc,                \* "idle", or the position inside Generate, or "done"
  pSrc, pDest,       \* Generate: source and destination buffer
  iGen,              \* Generate: generation loop counter
  iChar,             \* Generate: source character loop counter
  uEntry,            \* m_uState at the last call of Generate
  nCalls             \* number of Generate calls made

\* CMain::Draw(const TurtleDesc&) and the bitmap it leaves.  The loop
\* variables i and j of Draw are iPass and jSym, its parameter d is
\* turtleDesc and its rectangle r is rect.
VARIABLES
  tpc,               \* "idle", or the position inside Draw, or its outcome
  turtleDesc,        \* the descriptor d passed to Draw
  stack,             \* stack of StackFrame, top first
  ptCur,             \* current position
  rect,              \* rectangle r measured in the first pass
  iPass,             \* 0 means measure, 1 means draw
  jSym,              \* number of symbols of the string interpreted in this pass
  angle,             \* current orientation
  len,               \* current branch length
  m_pBitmap,         \* width and height of the bitmap
  drawn,             \* the DrawLine calls made, in order
  trace              \* per pass: the turtle at its start and after each symbol

turtleVars == << tpc, turtleDesc, stack, ptCur, rect, iPass, jSym, angle, len,
                 m_pBitmap, drawn, trace >>

\* Direct calls of the CRandom member functions.
VARIABLES
  rpc,               \* "ready", or "aborted" once a call has ended the program
  ret,               \* the last call of randn: function, arguments, value returned
  nDraws,            \* number of direct calls of randn made
  seeded             \* the last call of srand: its argument, and nDraws at the call

randomVars == << rpc, ret, nDraws, seeded >>

\* CMain, and the menus of its window.
VARIABLES
  m_nType,           \* current L-system type
  m_bThickLines,     \* line thickness flag
  m_bShowRules,      \* whether to show the rules
  fileMenu,          \* state of entry 0, Generate, of the File menu
  canvas,            \* what the last Draw() cleared the bitmap and drew
  nCommands,         \* number of WM_COMMAND messages handled
  command            \* menu identifier of the last WM_COMMAND handled

menuVars == << m_nType, m_bThickLines, m_bShowRules, fileMenu, canvas, nCommands,
               command >>

lsystemVars == << m_uState, m_wstrRoot, m_mapRules, m_wstrRuleString, m_wstrBuffer,
                  m_pResult, m_bStochastic, m_nGenerations, pc, pSrc, pDest, iGen,
                  iChar, uEntry, nCalls >>

vars == << m_uState, m_wstrRoot, m_mapRules, m_wstrRuleString, m_wstrBuffer,
           m_pResult, m_bStochastic, m_nGenerations, pc, pSrc, pDest, iGen,
           iChar, uEntry, nCalls, turtleVars, randomVars, menuVars >>

grammarVars == << m_wstrRoot, m_mapRules, m_wstrRuleString, m_bStochastic >>
localVars == << pSrc, pDest, iGen, iChar >>

EmptyBuffers == [b \in 0..1 |-> <<>>]

\* LSystem::GetString
GetString == m_wstrBuffer[m_pResult]

\* LSystem::IsStochastic
IsStochastic == m_bStochastic

\* LSystem::GetGenerations
GetGenerations == m_nGenerations

\* LSystem::GetRuleString
GetRuleString == m_wstrRuleString

\* Number of productions stored in m_mapRules.
RECURSIVE NumRules(_, _)
NumRules(map, keys) ==
  IF keys = {} THEN 0
  ELSE LET k == CHOOSE x \in keys : TRUE
       IN Len(map[k]) + NumRules(map, keys \ {k})

\* Number of end-of-line characters of the "Root is" lines in a rule string.
RECURSIVE NumRootLines(_)
NumRootLines(s) ==
  IF Len(s) < 4 THEN 0
  ELSE (IF SubSeq(s, 1, 4) = <<"R", "o", "o", "t">> THEN 1 ELSE 0)
       + NumRootLines(Tail(s))

Idle == pc \in {"idle", "done"}

\* TurtleDesc(): the member initialisers of the descriptor.
TurtleDesc0 ==
  [m_fAngleDelta |-> FZero, m_fLength |-> FromInt(8),
   m_fLenMultiplier |-> FromInt(1), m_fPointSize |-> FromInt(1)]

\* Gdiplus::PointF
PointF(x, y) == [X |-> x, Y |-> y]

\* No Draw has been called.
NoTurtle ==
  /\ tpc = "idle"
  /\ turtleDesc = TurtleDesc0
  /\ stack = <<>>
  /\ ptCur = PointF(FZero, FZero)
  /\ rect = [left |-> 0, right |-> 0, top |-> 0, bottom |-> 0]
  /\ iPass = 0 /\ jSym = 0
  /\ angle = FZero /\ len = FZero
  /\ m_pBitmap = [w |-> 0, h |-> 0]
  /\ drawn = <<>>
  /\ trace = [p \in 0..1 |-> <<>>]

\* No function of CRandom has been called directly.
NoRandom ==
  /\ rpc = "ready"
  /\ ret = [fn |-> "none", i |-> << 0, 0 >>, j |-> << 0, 0 >>, val |-> << 0, 0 >>]
  /\ nDraws = 0
  /\ seeded = [seed |-> 0 - 1, at |-> 0]

\* The member initialisers of CMain; no menu has been created, and nothing
\* has been drawn.
NoMenu ==
  /\ m_nType = "IDM_LSYS_PLANT_A"
  /\ m_bThickLines = FALSE
  /\ m_bShowRules = TRUE
  /\ fileMenu = "none"
  /\ canvas = [s |-> <<>>, type |-> "none", m_fPointSize |-> 0]
  /\ nCommands = 0
  /\ command = "none"

\* State after construction: member initialisers of LSystem, and the
\* CRandom constructor seeding from the timer.
Init ==
  /\ \E q \in RandSeqs : m_uState = srand(q)
  /\ m_wstrRoot = <<>>
  /\ m_mapRules = << >>
  /\ m_wstrRuleString = <<>>
  /\ m_wstrBuffer = EmptyBuffers
  /\ m_pResult = 0
  /\ m_bStochastic = FALSE
  /\ m_nGenerations = 0
  /\ pc = "idle"
  /\ pSrc = 0 /\ pDest = 1 /\ iGen = 0 /\ iChar = 0
  /\ uEntry = m_uState
  /\ nCalls = 0
  /\ NoTurtle
  /\ NoRandom
  /\ NoMenu

\* ------------------------------------------------------------------------
\* Settings functions
\* ------------------------------------------------------------------------
\* Digits of a natural number, most significant first.
RECURSIVE Digits(_)
Digits(k) ==
  LET d == <<"0", "1", "2", "3", "4", "5", "6", "7", "8", "9">>
  IN IF k < 10 THEN << d[k + 1] >> ELSE Digits(k \div 10) \o << d[(k % 10) + 1] >>

\* wstream.precision(2); wstream << std::fixed << fProb
Fixed2(fProb) ==
  Digits(fProb \div 100) \o <<".">> \o Digits((fProb % 100) \div 10) \o Digits(fProb % 10)

\* AddRule with the stochastic test written m_fProb <= 1.
AddRule_leq(rule) ==
  /\ Idle
  /\ NumRules(m_mapRules, DOMAIN m_mapRules) < MaxRules
  /\ LET stoch == IF rule.m_fProb <= ProbOne THEN TRUE ELSE m_bStochastic
         line == << rule.m_chLHS >> \o << " ", "->", " " >> \o rule.m_wstrRHS
                 \o (IF stoch THEN << " ", "(" >> \o Fixed2(rule.m_fProb) \o << ")" >>
                     ELSE << >>)
                 \o << "\n" >>
     IN /\ m_bStochastic' = stoch
        /\ m_mapRules' =
             IF rule.m_chLHS \notin DOMAIN m_mapRules
             THEN (rule.m_chLHS :> << rule >>) @@ m_mapRules
             ELSE [m_mapRules EXCEPT ![rule.m_chLHS] = Append(@, rule)]
        /\ m_wstrRuleString' = m_wstrRuleString \o line
  /\ pc' = "idle"
  /\ UNCHANGED << m_uState, m_wstrRoot, m_wstrBuffer, m_pResult, m_nGenerations,
                  localVars, uEntry, nCalls >>
  /\ UNCHANGED << turtleVars, randomVars, menuVars >>

\* AddRule with the suffix written for a production of probability < 1
\* only.
AddRule_ownprob(rule) ==
  /\ Idle
  /\ NumRules(m_mapRules, DOMAIN m_mapRules) < MaxRules
  /\ LET stoch == IF rule.m_fProb < ProbOne THEN TRUE ELSE m_bStochastic
         line == << rule.m_chLHS >> \o << " ", "->", " " >> \o rule.m_wstrRHS
                 \o (IF rule.m_fProb < ProbOne THEN << " ", "(" >> \o Fixed2(rule.m_fProb) \o << ")" >>
                     ELSE << >>)
                 \o << "\n" >>
     IN /\ m_bStochastic' = stoch
        /\ m_mapRules' =
             IF rule.m_chLHS \notin DOMAIN m_mapRules
             THEN (rule.m_chLHS :> << rule >>) @@ m_mapRules
             ELSE [m_mapRules EXCEPT ![rule.m_chLHS] = Append(@, rule)]
        /\ m_wstrRuleString' = m_wstrRuleString \o line
  /\ pc' = "idle"
  /\ UNCHANGED << m_uState, m_wstrRoot, m_wstrBuffer, m_pResult, m_nGenerations,
                  localVars, uEntry, nCalls >>
  /\ UNCHANGED << turtleVars, randomVars, menuVars >>

\* LSystem::AddRule
AddRule(rule) ==
  /\ Idle
  /\ NumRules(m_mapRules, DOMAIN m_mapRules) < MaxRules
  /\ LET stoch == IF rule.m_fProb < ProbOne THEN TRUE ELSE m_bStochastic
         line == << rule.m_chLHS >> \o << " ", "->", " " >> \o rule.m_wstrRHS
                 \o (IF stoch THEN << " ", "(" >> \o Fixed2(rule.m_fProb) \o << ")" >>
                     ELSE << >>)
                 \o << "\n" >>
     IN /\ m_bStochastic' = stoch
        /\ m_mapRules' =
             IF rule.m_chLHS \notin DOMAIN m_mapRules
             THEN (rule.m_chLHS :> << rule >>) @@ m_mapRules
             ELSE [m_mapRules EXCEPT ![rule.m_chLHS] = Append(@, rule)]
        /\ m_wstrRuleString' = m_wstrRuleString \o line
  /\ pc' = "idle"
  /\ UNCHANGED << m_uState, m_wstrRoot, m_wstrBuffer, m_pResult, m_nGenerations,
                  localVars, uEntry, nCalls >>
  /\ UNCHANGED << turtleVars, randomVars, menuVars >>

\* LSystem::SetRoot
SetRoot(omega) ==
  /\ Idle
  /\ NumRootLines(m_wstrRuleString) < MaxRootSets
  /\ m_wstrRoot' = omega
  /\ m_wstrRuleString' =
       << "R", "o", "o", "t", " ", "i", "s", " " >> \o omega \o << "\n" >>
       \o m_wstrRuleString
  /\ pc' = "idle"
  /\ UNCHANGED << m_uState, m_mapRules, m_wstrBuffer, m_pResult, m_bStochastic,
                  m_nGenerations, localVars, uEntry, nCalls >>
  /\ UNCHANGED << turtleVars, randomVars, menuVars >>

\* Clear without m_wstrBuffer[1].clear().
Clear_keepbuffer ==
  /\ Idle
  /\ m_mapRules' = << >>
  /\ m_wstrRuleString' = <<>>
  /\ m_wstrRoot' = <<>>
  /\ m_wstrBuffer' = [m_wstrBuffer EXCEPT ![0] = <<>>]
  /\ m_bStochastic' = FALSE
  /\ pc' = "idle"
  /\ UNCHANGED << m_uState, m_pResult, m_nGenerations, localVars, uEntry, nCalls >>
  /\ UNCHANGED << turtleVars, randomVars, menuVars >>

\* Clear that also sets m_nGenerations to 0.
Clear_resetcount ==
  /\ Idle
  /\ m_mapRules' = << >>
  /\ m_wstrRuleString' = <<>>
  /\ m_wstrRoot' = <<>>
  /\ m_wstrBuffer' = EmptyBuffers
  /\ m_bStochastic' = FALSE
  /\ m_nGenerations' = 0
  /\ pc' = "idle"
  /\ UNCHANGED << m_uState, m_pResult, localVars, uEntry, nCalls >>
  /\ UNCHANGED << turtleVars, randomVars, menuVars >>

\* LSystem::Clear
Clear ==
  /\ Idle
  /\ m_mapRules' = << >>
  /\ m_wstrRuleString' = <<>>
  /\ m_wstrRoot' = <<>>
  /\ m_wstrBuffer' = EmptyBuffers
  /\ m_bStochastic' = FALSE
  /\ pc' = "idle"
  /\ UNCHANGED << m_uState, m_pResult, m_nGenerations, localVars, uEntry, nCalls >>
  /\ UNCHANGED << turtleVars, randomVars, menuVars >>

\* ------------------------------------------------------------------------
\* LSystem::Generate
\* ------------------------------------------------------------------------
\* SelectRule without the accumulation of the probabilities.
RECURSIVE SelectRule_nocum(_, _, _, _)
SelectRule_nocum(list, w, k, fProb) ==
  IF k > Len(list) THEN 0
  ELSE IF RandfLeq(w, FProb(list[k].m_fProb)) THEN k
       ELSE SelectRule_nocum(list, w, k + 1, fProb)

\* The loop over the productions of one symbol: the index in list of the
\* production applied for the drawn word w, or 0 when none is applied.
\* k is the next production to try, fProb the probability accumulated so far.
RECURSIVE SelectRule(_, _, _, _)
SelectRule(list, w, k, fProb) ==
  IF k > Len(list) THEN 0
  ELSE CHOOSE z \in { IF RandfLeq(w, cum) THEN k ELSE SelectRule(list, w, k + 1, cum) :
                      cum \in { FAdd(fProb, FProb(list[k].m_fProb)) } } : TRUE

\* RewriteChar that copies the symbol only when it has no production list.
RewriteChar_dropsymbol(ch, map, u) ==
  IF ch \in DOMAIN map
  THEN LET r == randn(u)
           k == SelectRule(map[ch], r.val, 1, FZero)
       IN [out |-> IF k # 0 THEN map[ch][k].m_wstrRHS ELSE << >>,
           u |-> r.state, k |-> k]
  ELSE [out |-> << ch >>, u |-> u, k |-> 0]

\* RewriteChar with randf() called before the production list is looked up.
RewriteChar_drawfirst(ch, map, u) ==
  IF ch \in DOMAIN map
  THEN LET r == randn(u)
           k == SelectRule(map[ch], r.val, 1, FZero)
       IN [out |-> IF k # 0 THEN map[ch][k].m_wstrRHS ELSE << ch >>,
           u |-> r.state, k |-> k]
  ELSE [out |-> << ch >>, u |-> randn(u).state, k |-> 0]

\* Body of the loop over the source characters, for the character ch, the
\* rules map and the PRNG state u: the string appended to the destination,
\* the PRNG state afterwards and the index of the production applied.
RewriteChar(ch, map, u) ==
  IF ch \in DOMAIN map
  THEN CHOOSE z \in UNION {
         { [out |-> IF k # 0 THEN map[ch][k].m_wstrRHS ELSE << ch >>,
            u |-> r.state, k |-> k] :
             k \in { SelectRule(map[ch], r.val, 1, FZero) } } :
           r \in { randn(u) } } : TRUE
  ELSE [out |-> << ch >>, u |-> u, k |-> 0]

\* GenerateCall with both pointers set to buffer 0.
GenerateCall_alias(n) ==
  /\ Idle
  /\ nCalls < MaxCalls
  /\ m_nGenerations' = n
  /\ pSrc' = 0
  /\ pDest' = 0
  /\ m_wstrBuffer' = [m_wstrBuffer EXCEPT ![0] = m_wstrRoot]
  /\ iGen' = 0
  /\ pc' = "generations"
  /\ uEntry' = m_uState
  /\ nCalls' = nCalls + 1
  /\ UNCHANGED << m_uState, grammarVars, m_pResult, iChar >>
  /\ UNCHANGED << turtleVars, randomVars, menuVars >>

\* GenerateCall with the copy written m_wstrRoot = *pSrc.
GenerateCall_rootswap(n) ==
  /\ Idle
  /\ nCalls < MaxCalls
  /\ m_nGenerations' = n
  /\ pSrc' = 0
  /\ pDest' = 1
  /\ m_wstrRoot' = m_wstrBuffer[0]
  /\ iGen' = 0
  /\ pc' = "generations"
  /\ uEntry' = m_uState
  /\ nCalls' = nCalls + 1
  /\ UNCHANGED << m_uState, m_mapRules, m_wstrRuleString, m_bStochastic,
                  m_wstrBuffer, m_pResult, iChar >>
  /\ UNCHANGED << turtleVars, randomVars, menuVars >>

\* Entry of Generate(n), up to the copy of the root to the source buffer.
GenerateCall(n) ==
  /\ Idle
  /\ nCalls < MaxCalls
  /\ m_nGenerations' = n
  /\ pSrc' = 0
  /\ pDest' = 1
  /\ m_wstrBuffer' = [m_wstrBuffer EXCEPT ![0] = m_wstrRoot]
  /\ iGen' = 0
  /\ pc' = "generations"
  /\ uEntry' = m_uState
  /\ nCalls' = nCalls + 1
  /\ UNCHANGED << m_uState, grammarVars, m_pResult, iChar >>
  /\ UNCHANGED << turtleVars, randomVars, menuVars >>

\* Start of one generation: the destination buffer is cleared.
PassBegin ==
  /\ pc = "generations"
  /\ iGen < m_nGenerations
  /\ m_wstrBuffer' = [m_wstrBuffer EXCEPT ![pDest] = <<>>]
  /\ iChar' = 0
  /\ pc' = "chars"
  /\ UNCHANGED << m_uState, grammarVars, m_pResult, m_nGenerations, pSrc, pDest,
                  iGen, uEntry, nCalls >>
  /\ UNCHANGED << turtleVars, randomVars, menuVars >>

\* One iteration of the loop over the characters of the source buffer.
RewriteSymbol ==
  /\ pc = "chars"
  /\ iChar < Len(m_wstrBuffer[pSrc])
  /\ LET rw == RewriteChar(m_wstrBuffer[pSrc][iChar + 1], m_mapRules, m_uState)
     IN /\ m_wstrBuffer' = [m_wstrBuffer EXCEPT ![pDest] = @ \o rw.out]
        /\ m_uState' = rw.u
  /\ iChar' = iChar + 1
  /\ UNCHANGED << grammarVars, m_pResult, m_nGenerations, pc, pSrc, pDest, iGen,
                  uEntry, nCalls >>
  /\ UNCHANGED << turtleVars, randomVars, menuVars >>

\* End of one generation: the buffer pointers are swapped.
PassEnd ==
  /\ pc = "chars"
  /\ iChar >= Len(m_wstrBuffer[pSrc])
  /\ pSrc' = pDest
  /\ pDest' = pSrc
  /\ iGen' = iGen + 1
  /\ pc' = "generations"
  /\ UNCHANGED << m_uState, grammarVars, m_wstrBuffer, m_pResult, m_nGenerations,
                  iChar, uEntry, nCalls >>
  /\ UNCHANGED << turtleVars, randomVars, menuVars >>

\* The buffer m_pResult is set to when Generate returns.
ResultBuffer(src, dest) == dest

\* End of Generate: the result pointer is set; the locals go out of scope.
GenerateReturn ==
  /\ pc = "generations"
  /\ iGen >= m_nGenerations
  /\ m_pResult' = ResultBuffer(pSrc, pDest)
  /\ pc' = "done"
  /\ pSrc' = 0 /\ pDest' = 1 /\ iGen' = 0 /\ iChar' = 0
  /\ UNCHANGED << m_uState, grammarVars, m_wstrBuffer, m_nGenerations, uEntry, nCalls >>
  /\ UNCHANGED << turtleVars, randomVars, menuVars >>

Generating == pc \in {"generations", "chars"}

\* ------------------------------------------------------------------------
\* Specification
\* ------------------------------------------------------------------------
Next ==
  \/ \E rule \in Productions : AddRule(rule)
  \/ \E omega \in Roots : SetRoot(omega)
  \/ Clear
  \/ \E n \in 0..MaxGen : GenerateCall(n)
  \/ PassBegin
  \/ RewriteSymbol
  \/ PassEnd
  \/ GenerateReturn

Spec == Init /\ [][Next]_vars

\* ------------------------------------------------------------------------
\* Summaries of Generate
\* ------------------------------------------------------------------------
\* One left-to-right pass over the string s from the PRNG state u: the
\* rewritten string and the PRNG state after the pass.
\* The symbols lo..hi of s are rewritten as its first half then its second
\* half, each from the PRNG state the symbols before it have left.
RECURSIVE RewriteRange(_, _, _, _, _)
RewriteRange(s, lo, hi, map, u) ==
  IF lo > hi THEN [str |-> <<>>, u |-> u]
  ELSE IF lo = hi
  THEN CHOOSE z \in { [str |-> rw.out, u |-> rw.u] :
                      rw \in { RewriteChar(s[lo], map, u) } } : TRUE
  ELSE CHOOSE z \in UNION {
         { [str |-> left.str \o right.str, u |-> right.u] :
             right \in { RewriteRange(s, ((lo + hi) \div 2) + 1, hi, map, left.u) } } :
           left \in { RewriteRange(s, lo, (lo + hi) \div 2, map, u) } } : TRUE

\* The string, the rules and the PRNG state are evaluated once.
RewritePass(str, rules, state) ==
  CHOOSE z \in { RewriteRange(s, 1, Len(s), map, u) :
                   s \in { str }, map \in { rules }, u \in { state } } : TRUE

\* Generation n of root: the root after n rewrite passes, drawing from u.
RECURSIVE Generation(_, _, _, _)
Generation(root, map, u, n) ==
  IF n = 0 THEN [str |-> root, u |-> u]
  ELSE CHOOSE z \in { RewritePass(g.str, map, g.u) :
                      g \in { Generation(root, map, u, n - 1) } } : TRUE

\* The whole of Generate(n) run on the buffers buf: the buffers, the result
\* pointer and the PRNG state it leaves.
RECURSIVE GenerateLoop(_, _, _, _, _, _, _)
GenerateLoop(buf, src, dest, map, u, i, n) ==
  IF i >= n THEN [buf |-> buf, result |-> ResultBuffer(src, dest), u |-> u]
  ELSE CHOOSE z \in UNION {
         { GenerateLoop(next, dest, src, map, p.u, i + 1, n) :
             next \in { [buf EXCEPT ![dest] = p.str] } } :
           p \in { RewritePass(buf[src], map, u) } } : TRUE

\* The buffers, the rules and the PRNG state are evaluated once.
GenerateRun(buffers, root, rules, state, n) ==
  CHOOSE z \in { GenerateLoop(buf, 0, 1, map, u, 0, n) :
                   buf \in { [buffers EXCEPT ![0] = root] }, map \in { rules },
                   u \in { state } } : TRUE

\* The string GetString() returns after GenerateRun.
GenerateResult(buf, root, map, u, n) ==
  CHOOSE z \in { g.buf[g.result] : g \in { GenerateRun(buf, root, map, u, n) } } : TRUE

\* The step-by-step Generate and its summary agree.  Generate writes buffer 0
\* always and buffer 1 when n > 0, and reads buffer 1 only after writing it,
\* so the summary run on the buffers Generate has left is the summary run on
\* the buffers it was called with.
SummaryAgrees ==
  pc = "done" =>
    LET g == GenerateRun(m_wstrBuffer, m_wstrRoot, m_mapRules, uEntry, m_nGenerations)
    IN g.buf = m_wstrBuffer /\ g.result = m_pResult /\ g.u = m_uState

\* ------------------------------------------------------------------------
\* Properties
\* ------------------------------------------------------------------------
\* Sum of the probabilities of the first k productions of list.
RECURSIVE CumProb(_, _)
CumProb(list, k) ==
  IF k = 0 THEN FZero ELSE FAdd(CumProb(list, k - 1), FProb(list[k].m_fProb))

\* The productions of list whose cumulative probability is >= w/(2^32 - 1).
Covering(list, w) == { k \in 1..Len(list) : RandfLeq(w, CumProb(list, k)) }

Least(K) == CHOOSE k \in K : \A j \in K : k <= j

\* The symbol the next RewriteSymbol step reads, and whether one is left.
AtSymbol == pc = "chars" /\ iChar < Len(m_wstrBuffer[pSrc])
CurChar == m_wstrBuffer[pSrc][iChar + 1]

\* The production lists used in the examples.
RuleA30 == LProduction("F", <<"A">>, 30)
RuleB70 == LProduction("F", <<"B">>, 70)
RuleAA == LProduction("A", <<"A", "A">>, 100)

\* No symbol of the root has a production list.
NoRuleForRoot == \A i \in 1..Len(m_wstrRoot) : m_wstrRoot[i] \notin DOMAIN m_mapRules

\* Every production has probability 1.
AllProbOne ==
  \A c \in DOMAIN m_mapRules : \A k \in 1..Len(m_mapRules[c]) :
     m_mapRules[c][k].m_fProb = ProbOne

\* Some production has probability < 1.
HasStochasticRule ==
  \E c \in DOMAIN m_mapRules : \E k \in 1..Len(m_mapRules[c]) :
     m_mapRules[c][k].m_fProb < ProbOne

\* PRNG states over which independence of the PRNG is checked: the seeded
\* states, and a state whose first draw is 0xFFFFFFFF (randf() = 1).
AnyStates ==
  { srand(q) : q \in RandSeqs }
  \cup { << <<65535, 57344>>, <<0, 0>>, <<0, 0>>, <<0, 0>> >> }

\* C1: after Generate(n) has returned, GetString() is generation n: the root
\* after exactly n parallel rewrite passes (the root itself for n = 0).
C1_ResultIsGenerationN ==
  pc = "done" =>
    GetString = Generation(m_wstrRoot, m_mapRules, uEntry, m_nGenerations).str

\* C2: identity law: when no symbol of the root has a production list,
\* GetString() after Generate(n) is the root, for every n >= 0 and whatever
\* was generated before.
C2_IdentityLaw ==
  (pc = "done" /\ NoRuleForRoot) => GetString = m_wstrRoot

\* C3: in a rewrite step on a symbol with a production list, the production
\* applied is the first one, in insertion order, whose cumulative probability
\* is >= the drawn value; with F->A (0.3) then F->B (0.7), the drawn values
\* 0.2, 0.5 and 0.95 select A, B and B.
C3_Examples ==
  /\ SelectRule(<< RuleA30, RuleB70 >>, <<13107, 13107>>, 1, FZero) = 1
  /\ SelectRule(<< RuleA30, RuleB70 >>, <<32768, 0>>, 1, FZero) = 2
  /\ SelectRule(<< RuleA30, RuleB70 >>, <<62259, 13106>>, 1, FZero) = 2

C3_FirstCoveringRule ==
  [][ (AtSymbol /\ CurChar \in DOMAIN m_mapRules) =>
        LET list == m_mapRules[CurChar]
            K == Covering(list, randn(m_uState).val)
        IN /\ C3_Examples
           /\ K # {} =>
                m_wstrBuffer'[pDest] =
                  m_wstrBuffer[pDest] \o list[Least(K)].m_wstrRHS ]_vars

\* C3 witness: root FF, rules F->A (0.3), F->B (0.7): the first F drew a value
\* above 0.3 and became B, the second drew a value below 0.3 and became A.
C3_Witness ==
  /\ pc = "chars" /\ iChar = 2
  /\ m_wstrBuffer[pSrc] = <<"F", "F">>
  /\ m_mapRules = ("F" :> << RuleA30, RuleB70 >>)
  /\ m_wstrBuffer[pDest] = <<"B", "A">>

\* C4: malformed-grammar fallback: when the symbol has a production list whose
\* cumulative probability stays below the drawn value, the step appends
\* exactly that symbol to the destination and the pass goes on with the next
\* symbol.
C4_Fallback ==
  [][ (AtSymbol /\ CurChar \in DOMAIN m_mapRules
         /\ Covering(m_mapRules[CurChar], randn(m_uState).val) = {}) =>
        /\ m_wstrBuffer'[pDest] = m_wstrBuffer[pDest] \o << CurChar >>
        /\ pc' = "chars"
        /\ iChar' = iChar + 1 ]_vars

\* C4 witness: root FF with the single rule F->A (0.3): the first F drew a
\* value above 0.3 and was copied, the second became A.
C4_Witness ==
  /\ pc = "chars" /\ iChar = 2
  /\ m_wstrBuffer[pSrc] = <<"F", "F">>
  /\ m_mapRules = ("F" :> << RuleA30 >>)
  /\ m_wstrBuffer[pDest] = <<"F", "A">>

\* C5: parallel rewriting: during a pass the source and destination buffers
\* are distinct and the source buffer is not written; at the end of pass
\* iGen the source still holds generation iGen and the destination holds
\* generation iGen + 1, the rewrite of the source alone.
C5_ParallelRewriting ==
  [][ /\ pc = "chars" =>
           /\ pSrc # pDest
           /\ m_wstrBuffer'[pSrc] = m_wstrBuffer[pSrc]
      /\ (pc = "chars" /\ pc' = "generations") =>
           /\ m_wstrBuffer[pSrc] =
                Generation(m_wstrRoot, m_mapRules, uEntry, iGen).str
           /\ m_wstrBuffer[pDest] =
                Generation(m_wstrRoot, m_mapRules, uEntry, iGen + 1).str ]_vars

\* C5 witness: with the rule A->AA, one whole pass over "AB" has produced
\* "AAB": the source A was rewritten once and no produced A was.
C5_Witness ==
  /\ pc = "chars" /\ iChar = 2
  /\ m_wstrBuffer[pSrc] = <<"A", "B">>
  /\ m_mapRules = ("A" :> << RuleAA >>)
  /\ m_wstrBuffer[pDest] = <<"A", "A", "B">>

\* C6: Generate is not incremental: GetString() after Generate(n) is the
\* string the same call gives on a freshly configured system (empty
\* buffers), whatever earlier calls left in the buffers.
C6_NotIncremental ==
  pc = "done" =>
    GetString = GenerateResult(EmptyBuffers, m_wstrRoot, m_mapRules, uEntry,
                               m_nGenerations)

\* C7: for a grammar all of whose productions have probability 1, running
\* Generate(n) again after it has returned gives the string it has just
\* produced, from the PRNG state it left and from every other PRNG state.
C7_DeterministicGrammar ==
  (pc = "done" /\ AllProbOne) =>
    \A u \in AnyStates \cup { m_uState, uEntry } :
       GenerateResult(m_wstrBuffer, m_wstrRoot, m_mapRules, u, m_nGenerations)
         = GetString

\* C7 witness: Generate(2) has returned on root AB with the rule A->AA, having
\* drawn random values; the result holds the rewritten symbols.
C7_Witness ==
  /\ pc = "done" /\ m_nGenerations = 2
  /\ m_wstrRoot = <<"A", "B">>
  /\ m_mapRules = ("A" :> << RuleAA >>)
  /\ m_uState # uEntry
  /\ GetString = <<"A", "A", "B">>

\* C8: no step of Generate changes the root, the production lists, the rule
\* string or the stochastic flag.
C8_GrammarUnchanged ==
  [][ (Generating \/ Generating') => UNCHANGED grammarVars ]_vars

\* C8 witness: Generate(2) has returned on a stochastic grammar with a root.
C8_Witness ==
  /\ pc = "done" /\ m_nGenerations = 2
  /\ m_wstrRoot = <<"F", "F">>
  /\ m_mapRules = ("F" :> << RuleA30, RuleB70 >>)
  /\ m_bStochastic
  /\ m_uState # uEntry

\* C9: IsStochastic() is true exactly when a production with probability < 1
\* has been added since the last Clear; only Clear and AddRule of such a
\* production change the flag.
C9_StochasticFlag ==
  /\ [](IsStochastic <=> HasStochasticRule)
  /\ [][ m_bStochastic' # m_bStochastic =>
           \/ Clear
           \/ \E rule \in Productions : rule.m_fProb < ProbOne /\ AddRule(rule) ]_vars

\* C9 witness: the probability-1 production A->AA was added after the
\* stochastic F->A (the rule string shows the order) and a Generate has run:
\* the flag is still set.
C9_Witness ==
  /\ pc = "done"
  /\ m_mapRules = ("F" :> << RuleA30 >>) @@ ("A" :> << RuleAA >>)
  /\ m_wstrRuleString =
       << "F", " ", "->", " ", "A", " ", "(", "0", ".", "3", "0", ")", "\n",
          "A", " ", "->", " ", "A", "A", " ", "(", "1", ".", "0", "0", ")", "\n" >>
  /\ IsStochastic

\* C10: Clear empties the productions, the root, the rule string, the flag
\* and both buffers, so GetString() is empty; and every step of a Generate
\* run on an empty root and empty buffers, as Clear leaves them, keeps both
\* buffers and GetString() empty.
C10_ClearResets ==
  [][ /\ Clear =>
           /\ m_mapRules' = << >>
           /\ m_wstrRoot' = <<>>
           /\ m_wstrRuleString' = <<>>
           /\ ~IsStochastic'
           /\ m_wstrBuffer' = EmptyBuffers
           /\ GetString' = <<>>
      /\ ((Generating \/ Generating') /\ m_wstrRoot = <<>>
             /\ m_wstrBuffer = EmptyBuffers) =>
           /\ m_wstrBuffer' = EmptyBuffers
           /\ GetString' = <<>> ]_vars

\* C10 witness: random values were drawn by an earlier Generate, so a grammar
\* was configured and generated; it was cleared, and the Generate that
\* followed has returned.
C10_Witness ==
  /\ pc = "done" /\ nCalls = 2
  /\ m_wstrRoot = <<>> /\ m_mapRules = << >> /\ m_wstrRuleString = <<>>
  /\ m_wstrBuffer = EmptyBuffers
  /\ uEntry \notin { srand(q) : q \in RandSeqs }
  /\ GetString = <<>>

\* ------------------------------------------------------------------------
\* Turtle graphics: inputs
\* ------------------------------------------------------------------------
MaxStr == 3          \* longest string of the enumerated turtle inputs

\* The symbols the interpreter distinguishes, and X for every other one.
TurtleAlphabet == { "F", "+", "-", "[", "]", "X" }

RECURSIVE AllStrings(_)
AllStrings(n) ==
  IF n = 0 THEN { <<>> }
  ELSE LET S == AllStrings(n - 1)
       IN S \cup { Append(t, c) : t \in { x \in S : Len(x) = n - 1 }, c \in TurtleAlphabet }

\* Two right-hand sides of the plants of CMain::SetRules, the second with a
\* space and the symbol X, a nested branch, a walk around three corners and
\* a walk with two branches.
NamedStrings ==
  { <<"F", "[", "+", "F", "]", "F", "[", "-", "F", "]", "F">>,
    <<"F", "-", "[", " ", "[", "X", "]", "+", "X", "]", "+", "F", "[", "+", "F", "X", "]", "-", "X">>,
    <<"F", "[", "+", "[", "F", "]", "-", "F", "]", "F">>,
    <<"F", "+", "+", "+", "F">>,
    <<"[", "F", "]", "[", "-", "F", "]">> }

TurtleStrings == AllStrings(MaxStr) \cup NamedStrings

\* The hexagonal Gosper curve of CMain::SetRules.
GosperL ==
  LProduction("L", <<"L", "+", "R", "+", "+", "R", "-", "L", "-", "-", "L", "L", "-", "R", "+">>, ProbOne)
GosperR ==
  LProduction("R", <<"-", "L", "+", "R", "R", "+", "+", "R", "+", "L", "-", "-", "L", "-", "R">>, ProbOne)
GosperRules == ("L" :> << GosperL >>) @@ ("R" :> << GosperR >>)

\* The float nearest to pi/2, and the headings reached by quarter turns.
HalfPi == [m |-> 13176795, e |-> -23]
Pi == [m |-> 13176795, e |-> -22]
ThreeHalfPi == [m |-> 9882596, e |-> -21]
FOne == FromInt(1)
FHalf == [m |-> 8388608, e |-> -24]

TrigAngles ==
  { FZero, HalfPi, FNeg(HalfPi), Pi, FNeg(Pi), ThreeHalfPi, FNeg(ThreeHalfPi) }

\* sinf and cosf at these headings: the float nearest to the sine and the
\* cosine of the float argument.
sinf(a) ==
  CASE a = FZero -> FZero
    [] a = HalfPi -> FOne
    [] a = FNeg(HalfPi) -> FNeg(FOne)
    [] a = Pi -> [m |-> -12303662, e |-> -47]
    [] a = FNeg(Pi) -> [m |-> 12303662, e |-> -47]
    [] a = ThreeHalfPi -> FNeg(FOne)
    [] a = FNeg(ThreeHalfPi) -> FOne

cosf(a) ==
  CASE a = FZero -> FOne
    [] a \in { HalfPi, FNeg(HalfPi) } -> [m |-> -12303662, e |-> -48]
    [] a \in { Pi, FNeg(Pi) } -> FNeg(FOne)
    [] a \in { ThreeHalfPi, FNeg(ThreeHalfPi) } -> [m |-> 13426222, e |-> -50]

\* float(M_PI)*60.0f/180, the angle delta of the Gosper curve.
SixtyDegrees == [m |-> 8784530, e |-> -23]

\* Descriptors: TurtleDesc(), the Gosper curve's TurtleDesc(60.0f, 12.0f), a
\* right-angle turtle with thin lines, a right-angle turtle with thick
\* lines whose branches halve in length, and a right-angle turtle with a pen
\* half a pixel wide.
TurtleDescs ==
  { TurtleDesc0,
    [m_fAngleDelta |-> SixtyDegrees, m_fLength |-> FromInt(12),
     m_fLenMultiplier |-> FOne, m_fPointSize |-> FOne],
    [m_fAngleDelta |-> HalfPi, m_fLength |-> FromInt(8),
     m_fLenMultiplier |-> FOne, m_fPointSize |-> FOne],
    [m_fAngleDelta |-> HalfPi, m_fLength |-> FromInt(8),
     m_fLenMultiplier |-> FHalf, m_fPointSize |-> FromInt(2)],
    [m_fAngleDelta |-> HalfPi, m_fLength |-> FromInt(8),
     m_fLenMultiplier |-> FOne, m_fPointSize |-> FHalf] }

\* StackFrame::StackFrame
StackFrame(pos, a, l) == [m_ptPos |-> pos, m_fAngle |-> a, m_fLength |-> l]

\* What stack.top() may yield on an empty stack: a zeroed frame, or the
\* frame of an earlier push still lying in the freed storage.
GarbageFrames ==
  { StackFrame(PointF(FZero, FZero), FZero, FZero),
    StackFrame(PointF(FZero, FromInt(-8)), FZero, FromInt(8)) }

\* The headings of one pass over s[k..], from heading a with the headings
\* stk on the stack: whether every move is made at a heading of TrigAngles,
\* and the stack the pass leaves.
RECURSIVE Headings(_, _, _, _, _)
Headings(s, k, a, stk, delta) ==
  IF k > Len(s) THEN [ok |-> TRUE, stk |-> stk]
  ELSE CASE s[k] \in { "F", "L", "R" } ->
              IF a \in TrigAngles THEN Headings(s, k + 1, a, stk, delta)
              ELSE [ok |-> FALSE, stk |-> stk]
         [] s[k] = "+" -> Headings(s, k + 1, FSub(a, delta), stk, delta)
         [] s[k] = "-" -> Headings(s, k + 1, FAdd(a, delta), stk, delta)
         [] s[k] = "[" -> Headings(s, k + 1, a, << a >> \o stk, delta)
         [] s[k] = "]" ->
              IF stk = <<>> THEN Headings(s, k + 1, FZero, stk, delta)
              ELSE Headings(s, k + 1, Head(stk), Tail(stk), delta)
         [] OTHER -> Headings(s, k + 1, a, stk, delta)

\* Both passes of Draw move at headings of TrigAngles only.
AnglesKnown(s, delta) ==
  LET p1 == Headings(s, 1, FZero, <<>>, delta)
  IN p1.ok /\ Headings(s, 1, FZero, p1.stk, delta).ok

\* ------------------------------------------------------------------------
\* Turtle graphics: CMain::Draw(const TurtleDesc&)
\* ------------------------------------------------------------------------
Min(a, b) == IF a <= b THEN a ELSE b

Max(a, b) == IF a >= b THEN a ELSE b

\* AddPointToRect with floor in place of ceil.
AddPointToRect_floor(r, point) ==
  [left |-> Min(r.left, FFloor(point.X)),
   right |-> Max(r.right, FFloor(point.X)),
   top |-> Min(r.top, FFloor(point.Y)),
   bottom |-> Max(r.bottom, FFloor(point.Y))]

\* AddPointToRect
AddPointToRect(r, point) ==
  [left |-> Min(r.left, FFloor(point.X)),
   right |-> Max(r.right, FCeil(point.X)),
   top |-> Min(r.top, FFloor(point.Y)),
   bottom |-> Max(r.bottom, FCeil(point.Y))]

\* Draw is at symbol s[j] of the current pass, and the symbol is in C.
AtTurtleSymbol(C) ==
  /\ tpc = "loop"
  /\ jSym < Len(GetString)
  /\ GetString[jSym + 1] \in C

\* Position, heading and step length of the turtle.
Turtle(pos, a, l) == [pos |-> pos, angle |-> a, len |-> l]

\* j++, and the record of the turtle after the symbol.
NextSymbol ==
  /\ jSym' = jSym + 1
  /\ trace' = [trace EXCEPT ![iPass] = Append(@, Turtle(ptCur', angle', len'))]

\* Entry of Draw, up to the start of the first pass.
DrawCall(dsc) ==
  /\ tpc = "idle"
  /\ pc = "done"
  /\ AnglesKnown(GetString, dsc.m_fAngleDelta)
  /\ turtleDesc' = dsc
  /\ stack' = <<>>
  /\ ptCur' = PointF(FZero, FZero)
  /\ rect' = [left |-> FFloor(FZero), right |-> FCeil(FZero),
              top |-> FFloor(FZero), bottom |-> FCeil(FZero)]
  /\ iPass' = 0
  /\ angle' = FZero
  /\ len' = dsc.m_fLength
  /\ jSym' = 0
  /\ tpc' = "loop"
  /\ drawn' = <<>>
  /\ trace' = [p \in 0..1 |-> IF p = 0 THEN << Turtle(ptCur', angle', len') >> ELSE <<>>]
  /\ UNCHANGED m_pBitmap
  /\ UNCHANGED << lsystemVars, randomVars, menuVars >>

\* case 'L': case 'R': case 'F'
Forward ==
  /\ AtTurtleSymbol({ "L", "R", "F" })
  /\ LET ptNext == PointF(FSub(ptCur.X, FMul(FNeg(len), sinf(angle))),
                          FSub(ptCur.Y, FMul(len, cosf(angle))))
     IN /\ rect' = IF iPass = 0 THEN AddPointToRect(rect, ptNext) ELSE rect
        /\ drawn' = IF iPass = 0 THEN drawn
                    ELSE Append(drawn, [from |-> ptCur, to |-> ptNext])
        /\ ptCur' = ptNext
  /\ UNCHANGED << angle, len, stack, tpc, turtleDesc, iPass, m_pBitmap >>
  /\ NextSymbol
  /\ UNCHANGED << lsystemVars, randomVars, menuVars >>

\* case '+'
TurnPlus ==
  /\ AtTurtleSymbol({ "+" })
  /\ angle' = FSub(angle, turtleDesc.m_fAngleDelta)
  /\ UNCHANGED << ptCur, len, stack, rect, drawn, tpc, turtleDesc, iPass, m_pBitmap >>
  /\ NextSymbol
  /\ UNCHANGED << lsystemVars, randomVars, menuVars >>

\* case '-'
TurnMinus ==
  /\ AtTurtleSymbol({ "-" })
  /\ angle' = FAdd(angle, turtleDesc.m_fAngleDelta)
  /\ UNCHANGED << ptCur, len, stack, rect, drawn, tpc, turtleDesc, iPass, m_pBitmap >>
  /\ NextSymbol
  /\ UNCHANGED << lsystemVars, randomVars, menuVars >>

\* case '[' with the frame built after the step length is multiplied.
Push_scaledfirst ==
  /\ AtTurtleSymbol({ "[" })
  /\ len' = FMul(len, turtleDesc.m_fLenMultiplier)
  /\ stack' = << StackFrame(ptCur, angle, len') >> \o stack
  /\ UNCHANGED << ptCur, angle, rect, drawn, tpc, turtleDesc, iPass, m_pBitmap >>
  /\ NextSymbol
  /\ UNCHANGED << lsystemVars, randomVars, menuVars >>

\* case '['
Push ==
  /\ AtTurtleSymbol({ "[" })
  /\ stack' = << StackFrame(ptCur, angle, len) >> \o stack
  /\ len' = FMul(len, turtleDesc.m_fLenMultiplier)
  /\ UNCHANGED << ptCur, angle, rect, drawn, tpc, turtleDesc, iPass, m_pBitmap >>
  /\ NextSymbol
  /\ UNCHANGED << lsystemVars, randomVars, menuVars >>

\* case ']' without stack.pop().
Pop_nopop ==
  /\ AtTurtleSymbol({ "]" })
  /\ stack # <<>>
  /\ LET sf == Head(stack)
     IN /\ ptCur' = sf.m_ptPos
        /\ angle' = sf.m_fAngle
        /\ len' = sf.m_fLength
  /\ stack' = stack
  /\ UNCHANGED << rect, drawn, tpc, turtleDesc, iPass, m_pBitmap >>
  /\ NextSymbol
  /\ UNCHANGED << lsystemVars, randomVars, menuVars >>

\* case ']' with a frame on the stack
Pop ==
  /\ AtTurtleSymbol({ "]" })
  /\ stack # <<>>
  /\ LET sf == Head(stack)
     IN /\ ptCur' = sf.m_ptPos
        /\ angle' = sf.m_fAngle
        /\ len' = sf.m_fLength
  /\ stack' = Tail(stack)
  /\ UNCHANGED << rect, drawn, tpc, turtleDesc, iPass, m_pBitmap >>
  /\ NextSymbol
  /\ UNCHANGED << lsystemVars, randomVars, menuVars >>

\* case ']' with an empty stack: stack.top() and stack.pop() of an empty
\* std::stack are undefined.  Either the program stops there, or the frame
\* read is garbage and the loop goes on.
PopEmpty ==
  /\ AtTurtleSymbol({ "]" })
  /\ stack = <<>>
  /\ \/ /\ tpc' = "aborted"
        /\ UNCHANGED << ptCur, angle, len, stack, jSym, trace >>
     \/ /\ \E sf \in GarbageFrames :
             /\ ptCur' = sf.m_ptPos
             /\ angle' = sf.m_fAngle
             /\ len' = sf.m_fLength
        /\ stack' = <<>>
        /\ tpc' = "loop"
        /\ NextSymbol
  /\ UNCHANGED << rect, drawn, turtleDesc, iPass, m_pBitmap >>
  /\ UNCHANGED << lsystemVars, randomVars, menuVars >>

\* Any other symbol drawing a line of length zero.
OtherSymbol_dot ==
  /\ tpc = "loop"
  /\ jSym < Len(GetString)
  /\ GetString[jSym + 1] \notin { "L", "R", "F", "+", "-", "[", "]" }
  /\ drawn' = Append(drawn, [from |-> ptCur, to |-> ptCur])
  /\ UNCHANGED << ptCur, angle, len, stack, rect, tpc, turtleDesc, iPass, m_pBitmap >>
  /\ NextSymbol
  /\ UNCHANGED << lsystemVars, randomVars, menuVars >>

\* Any other symbol: no case of the switch.
OtherSymbol ==
  /\ tpc = "loop"
  /\ jSym < Len(GetString)
  /\ GetString[jSym + 1] \notin { "L", "R", "F", "+", "-", "[", "]" }
  /\ UNCHANGED << ptCur, angle, len, stack, rect, drawn, tpc, turtleDesc, iPass,
                  m_pBitmap >>
  /\ NextSymbol
  /\ UNCHANGED << lsystemVars, randomVars, menuVars >>

\* End of the first pass without r.right += delta and r.bottom += delta.
MeasureDone_nodelta ==
  /\ tpc = "loop"
  /\ jSym = Len(GetString)
  /\ iPass = 0
  /\ m_pBitmap' = [w |-> rect.right - rect.left, h |-> rect.bottom - rect.top]
  /\ ptCur' = PointF(FNeg(FromInt(rect.left)), FNeg(FromInt(rect.top)))
  /\ iPass' = 1
  /\ angle' = FZero
  /\ len' = turtleDesc.m_fLength
  /\ jSym' = 0
  /\ trace' = [trace EXCEPT ![1] = << Turtle(ptCur', angle', len') >>]
  /\ UNCHANGED << rect, stack, drawn, tpc, turtleDesc >>
  /\ UNCHANGED << lsystemVars, randomVars, menuVars >>

\* End of the first pass: the rectangle is enlarged, the bitmap created and
\* the second pass started.  d.m_fPointSize/2.0f is exact in binary, as is
\* the product with 0.5f.
MeasureDone ==
  /\ tpc = "loop"
  /\ jSym = Len(GetString)
  /\ iPass = 0
  /\ LET delta == FCeil(FMul(turtleDesc.m_fPointSize, FHalf))
         r2 == [rect EXCEPT !.right = @ + delta, !.bottom = @ + delta]
     IN /\ rect' = r2
        /\ m_pBitmap' = [w |-> r2.right - r2.left, h |-> r2.bottom - r2.top]
        /\ ptCur' = PointF(FNeg(FromInt(r2.left)), FNeg(FromInt(r2.top)))
  /\ iPass' = 1
  /\ angle' = FZero
  /\ len' = turtleDesc.m_fLength
  /\ jSym' = 0
  /\ trace' = [trace EXCEPT ![1] = << Turtle(ptCur', angle', len') >>]
  /\ UNCHANGED << stack, drawn, tpc, turtleDesc >>
  /\ UNCHANGED << lsystemVars, randomVars, menuVars >>

\* End of the second pass: Draw returns.
DrawDone ==
  /\ tpc = "loop"
  /\ jSym = Len(GetString)
  /\ iPass = 1
  /\ tpc' = "done"
  /\ UNCHANGED << turtleDesc, stack, ptCur, rect, iPass, jSym, angle, len,
                  m_pBitmap, drawn, trace >>
  /\ UNCHANGED << lsystemVars, randomVars, menuVars >>

\* "Root is ..." line and the line of a production of probability 1 of a
\* grammar without stochastic productions, as SetRoot and AddRule write them.
RootLine(omega) == << "R", "o", "o", "t", " ", "i", "s", " " >> \o omega \o << "\n" >>

RuleLine(rule) == << rule.m_chLHS >> \o << " ", "->", " " >> \o rule.m_wstrRHS \o << "\n" >>

\* The L-systems drawn: a root without productions, and the Gosper curve.
TurtleRuns ==
  { [root |-> str, map |-> << >>, lines |-> <<>>, n |-> 1] : str \in TurtleStrings }
  \cup { [root |-> << "L" >>, map |-> GosperRules,
          lines |-> RuleLine(GosperL) \o RuleLine(GosperR), n |-> 1] }

\* The system after construction, SetRoot, AddRule and one Generate.
TurtleInit ==
  /\ \E run \in TurtleRuns : \E q \in RandSeqs :
       LET g == GenerateRun(EmptyBuffers, run.root, run.map, srand(q), run.n)
       IN /\ uEntry = srand(q)
          /\ m_uState = g.u
          /\ m_wstrRoot = run.root
          /\ m_mapRules = run.map
          /\ m_wstrRuleString = RootLine(run.root) \o run.lines
          /\ m_wstrBuffer = g.buf
          /\ m_pResult = g.result
          /\ m_nGenerations = run.n
  /\ m_bStochastic = FALSE
  /\ pc = "done"
  /\ pSrc = 0 /\ pDest = 1 /\ iGen = 0 /\ iChar = 0
  /\ nCalls = 1
  /\ NoTurtle
  /\ NoRandom
  /\ NoMenu

TurtleNext ==
  \/ \E dsc \in TurtleDescs : DrawCall(dsc)
  \/ Forward
  \/ TurnPlus
  \/ TurnMinus
  \/ Push
  \/ Pop
  \/ PopEmpty
  \/ OtherSymbol
  \/ MeasureDone
  \/ DrawDone

TurtleSpec == TurtleInit /\ [][TurtleNext]_vars

\* ------------------------------------------------------------------------
\* Properties of the turtle interpreter
\* ------------------------------------------------------------------------
\* Number of '[' minus number of ']' among the first k symbols of s.
RECURSIVE Depth(_, _)
Depth(s, k) ==
  IF k = 0 THEN 0
  ELSE Depth(s, k - 1) + (IF s[k] = "[" THEN 1 ELSE IF s[k] = "]" THEN 0 - 1 ELSE 0)

\* Some ']' of s has no '[' before it to match.
Unmatched(s) == \E k \in 1..Len(s) : Depth(s, k) < 0

\* Every bracket of s is matched.
Balanced(s) == ~Unmatched(s) /\ Depth(s, Len(s)) = 0

\* Draw is running or has returned.
Drawing == tpc \in { "loop", "done" }

C12_UnderflowDetected ==
  [][(AtTurtleSymbol({ "]" }) /\ stack = <<>>) =>
       /\ tpc' \notin { "loop", "done" }
       /\ UNCHANGED << ptCur, angle, len, jSym >>]_vars

\* The '[' that the ']' at index k of s matches.
Match(s, k) ==
  CHOOSE m \in 1..(k - 1) :
    /\ s[m] = "["
    /\ Depth(s, m - 1) = Depth(s, k)
    /\ \A n \in (m + 1)..(k - 1) : ~(s[n] = "[" /\ Depth(s, n - 1) = Depth(s, k))

\* The turtle of pass p before symbol k is read.
TurtleBefore(p, k) == trace[p][k]

\* C13: a ']' that has a matching '[' in the string leaves position, heading
\* and step length as they were just before that '[' was read, whatever was
\* interpreted in between; the rectangle and the segments drawn so far stay.
C13_BranchRoundTrip ==
  [][(AtTurtleSymbol({ "]" }) /\ ~Unmatched(SubSeq(GetString, 1, jSym + 1))) =>
       LET before == TurtleBefore(iPass, Match(GetString, jSym + 1))
       IN /\ ptCur' = before.pos
          /\ angle' = before.angle
          /\ len' = before.len
          /\ rect' = rect
          /\ drawn' = drawn]_vars

\* C13 witness: in the second pass over F[+[F]-F]F with halving branches, the
\* outer ']' has just been read: the turtle is back where the first F left
\* it, with the full step length, after a turn, a nested branch and two
\* moves, and the three segments drawn stay.
C13_Witness ==
  /\ tpc = "loop" /\ iPass = 1 /\ jSym = 9
  /\ GetString = <<"F", "[", "+", "[", "F", "]", "-", "F", "]", "F">>
  /\ turtleDesc.m_fLenMultiplier = FHalf
  /\ ptCur = drawn[1].to
  /\ ptCur # drawn[3].to
  /\ angle = FZero
  /\ len = turtleDesc.m_fLength
  /\ Len(drawn) = 3

\* The float sum a + b is the real sum: the rounding error of the addition,
\* which single precision can express, is zero.
ExactSum(a, b) ==
  LET sum == FAdd(a, b)
      bv == FSub(sum, a)
      av == FSub(sum, bv)
  IN FAdd(FSub(a, av), FSub(b, bv)) = FZero

\* The start point of the second pass: (-left, -top) of the rectangle.
Offset == PointF(FNeg(FromInt(rect.left)), FNeg(FromInt(rect.top)))

\* q is p translated by off.
Translated(p, off, q) ==
  /\ q.X = FAdd(p.X, off.X) /\ ExactSum(p.X, off.X)
  /\ q.Y = FAdd(p.Y, off.Y) /\ ExactSum(p.Y, off.Y)

\* C14: on a string without an unmatched ']', the turtle of the second pass
\* has after each symbol the heading and the step length the turtle of the
\* first pass had after that symbol, and its position is that turtle's
\* position translated by (-left, -top) of the measured rectangle.
C14_TwoPassEquivalence ==
  (Drawing /\ iPass = 1 /\ ~Unmatched(GetString)) =>
    \A k \in 1..Len(trace[1]) :
      /\ trace[1][k].angle = trace[0][k].angle
      /\ trace[1][k].len = trace[0][k].len
      /\ Translated(trace[0][k].pos, Offset, trace[1][k].pos)

\* The point p lies on the bitmap: 0 <= x <= w and 0 <= y <= h.
InCanvas(p) ==
  /\ FNonNeg(p.X) /\ FLeqInt(p.X, m_pBitmap.w)
  /\ FNonNeg(p.Y) /\ FLeqInt(p.Y, m_pBitmap.h)

\* C15: on a string without an unmatched ']', the start point of the second
\* pass and every end point of a segment drawn in it lie on the bitmap
\* created from the measured rectangle, whose width and height are those of
\* the enlarged rectangle and whose origin is the rectangle's top-left corner.
C15_Containment ==
  (Drawing /\ iPass = 1 /\ ~Unmatched(GetString)) =>
    /\ m_pBitmap = [w |-> rect.right - rect.left, h |-> rect.bottom - rect.top]
    /\ FAdd(FromInt(rect.left), Offset.X) = FZero
    /\ FAdd(FromInt(rect.top), Offset.Y) = FZero
    /\ InCanvas(trace[1][1].pos)
    /\ \A n \in 1..Len(drawn) : InCanvas(drawn[n].from) /\ InCanvas(drawn[n].to)

SetMin(S) == CHOOSE x \in S : \A y \in S : x <= y

SetMax(S) == CHOOSE x \in S : \A y \in S : x >= y

\* The start point of the first pass and the end points of the moves made
\* in it so far.
MeasuredPoints ==
  { trace[0][1].pos }
  \cup { trace[0][k + 1].pos : k \in { n \in 1..(Len(trace[0]) - 1) : GetString[n] \in { "L", "R", "F" } } }

\* The rectangle with these corners.
Rect(l, t, r, b) == [left |-> l, right |-> r, top |-> t, bottom |-> b]

\* C16: during the first pass the rectangle is exactly the least floor and
\* the greatest ceiling of the coordinates of the start point and of the
\* segment end points so far; a move only grows it and leaves the end point
\* inside it; at the end of the pass ceil(point size / 2) is added to right
\* and bottom, and left and top stay.
C16_TightRectangle ==
  /\ []((tpc = "loop" /\ iPass = 0) =>
          rect = Rect(SetMin({ FFloor(p.X) : p \in MeasuredPoints }),
                      SetMin({ FFloor(p.Y) : p \in MeasuredPoints }),
                      SetMax({ FCeil(p.X) : p \in MeasuredPoints }),
                      SetMax({ FCeil(p.Y) : p \in MeasuredPoints })))
  /\ [][(AtTurtleSymbol({ "L", "R", "F" }) /\ iPass = 0) =>
          /\ rect'.left <= rect.left /\ rect'.top <= rect.top
          /\ rect'.right >= rect.right /\ rect'.bottom >= rect.bottom
          /\ rect'.left <= FFloor(ptCur'.X) /\ FCeil(ptCur'.X) <= rect'.right
          /\ rect'.top <= FFloor(ptCur'.Y) /\ FCeil(ptCur'.Y) <= rect'.bottom]_vars
  /\ [][(tpc = "loop" /\ iPass = 0 /\ iPass' = 1) =>
          rect' = Rect(rect.left, rect.top,
                       rect.right + ((FCeil(turtleDesc.m_fPointSize) + 1) \div 2),
                       rect.bottom + ((FCeil(turtleDesc.m_fPointSize) + 1) \div 2))]_vars

\* C16 witness: the first pass over F[+F]F[-F]F with right angles has ended:
\* the rectangle reaches 8 to the left and to the right of the start, 24
\* above it and nothing below, plus 1 for the pen on the right and below.
C16_Witness ==
  /\ tpc = "loop" /\ iPass = 1 /\ jSym = 0
  /\ GetString = <<"F", "[", "+", "F", "]", "F", "[", "-", "F", "]", "F">>
  /\ turtleDesc.m_fAngleDelta = HalfPi
  /\ turtleDesc.m_fLenMultiplier = FOne
  /\ rect = Rect(-8, -24, 9, 1)

\* C17: a symbol other than F, L, R, +, -, [ and ] changes neither position,
\* heading, step length, stack, rectangle nor the segments drawn; '+' lowers
\* the heading by the angle delta and '-' raises it by the angle delta, and
\* neither changes anything else; F, L and R change neither heading, step
\* length nor stack.
C17_SymbolEffects ==
  [][/\ (tpc = "loop" /\ jSym < Len(GetString)
         /\ GetString[jSym + 1] \notin { "F", "L", "R", "+", "-", "[", "]" }) =>
           UNCHANGED << ptCur, angle, len, stack, rect, drawn >>
     /\ AtTurtleSymbol({ "+" }) =>
           /\ angle' = FSub(angle, turtleDesc.m_fAngleDelta)
           /\ UNCHANGED << ptCur, len, stack, rect, drawn >>
     /\ AtTurtleSymbol({ "-" }) =>
           /\ angle' = FAdd(angle, turtleDesc.m_fAngleDelta)
           /\ UNCHANGED << ptCur, len, stack, rect, drawn >>
     /\ AtTurtleSymbol({ "F", "L", "R" }) =>
           UNCHANGED << angle, len, stack >>]_vars

\* C17 witness: in the second pass over F-[ [X]+X]+F[+FX]-X the space and the
\* X after it have been read inside two open branches, after a move and a
\* turn; the turtle is as the second '[' left it.
C17_Witness ==
  /\ tpc = "loop" /\ iPass = 1 /\ jSym = 6
  /\ GetString[4] = " " /\ GetString[6] = "X"
  /\ turtleDesc.m_fAngleDelta = HalfPi
  /\ Len(stack) = 2
  /\ Len(drawn) = 1
  /\ angle = HalfPi
  /\ Turtle(ptCur, angle, len) = trace[1][4]

\* The segments drawn form one polyline: each starts where the one before
\* it ended.
Connected(segs) ==
  \A k \in 1..(Len(segs) - 1) : segs[k + 1].from = segs[k].to

\* The Gosper curve has been set up and generated once.
GosperGenerated ==
  /\ m_wstrRoot = << "L" >>
  /\ m_mapRules = GosperRules
  /\ m_nGenerations = 1
  /\ pc = "done"

\* C18: with root L, the two Gosper productions and one generation, the
\* result has length 16, the length of the right-hand side of the L rule, and
\* is that right-hand side symbol for symbol; drawing it leaves the stack
\* empty and every segment starts where the one before it ended.
C18_GosperEndToEnd ==
  GosperGenerated =>
    /\ Len(GetString) = 16
    /\ Len(GetString) = Len(GosperL.m_wstrRHS)
    /\ GetString = GosperL.m_wstrRHS
    /\ stack = <<>>
    /\ Connected(drawn)

\* ------------------------------------------------------------------------
\* Direct calls of CRandom
\* ------------------------------------------------------------------------
\* The members of the system other than the PRNG state.
notRandomVars == << m_wstrRoot, m_mapRules, m_wstrRuleString, m_wstrBuffer,
                    m_pResult, m_bStochastic, m_nGenerations, pc, pSrc, pDest, iGen,
                    iChar, uEntry, nCalls, turtleVars, menuVars >>

\* What a call of randn, randn(i, j) leaves in ret.
Returned(fn, i, j, val) == [fn |-> fn, i |-> i, j |-> j, val |-> val]

\* The argument CRandom::srand passes to ::srand, for the value t of
\* timeGetTime(), with the test written seed > 0.
SeedOf_positive(seed, t) == IF seed > 0 THEN seed ELSE t % 32768

\* The argument CRandom::srand passes to ::srand, for the value t of
\* timeGetTime(): (seed >= 0)? seed: timeGetTime() & 0x7FFF.
SeedOf(seed, t) == IF seed >= 0 THEN seed ELSE t % 32768

\* CRandom::srand(seed), called when timeGetTime() is t.
SrandCall(seed, t) ==
  /\ rpc = "ready"
  /\ m_uState' = srand(CRand(SeedOf(seed, t)))
  /\ seeded' = [seed |-> seed, at |-> nDraws]
  /\ UNCHANGED << rpc, ret, nDraws, notRandomVars >>

\* CRandom::randn()
RandnCall ==
  /\ rpc = "ready"
  /\ nDraws < MaxDraws
  /\ LET r == randn(m_uState)
     IN /\ m_uState' = r.state
        /\ ret' = Returned("randn", << 0, 0 >>, << 0, 0 >>, r.val)
  /\ nDraws' = nDraws + 1
  /\ UNCHANGED << rpc, seeded, notRandomVars >>

\* CRandom::randn(i, j).  For the width 0 the remainder of a division by
\* zero is taken after randn() has run: the division traps and ends the
\* program, or, where the divide instruction yields 0 instead, the
\* remainder is the dividend.
RandnRangeCall(i, j) ==
  /\ rpc = "ready"
  /\ nDraws < MaxDraws
  /\ nDraws' = nDraws + 1
  /\ IF RangeWidth(i, j) = << 0, 0 >>
     THEN LET r == randn(m_uState)
          IN /\ m_uState' = r.state
             /\ \/ /\ rpc' = "aborted"
                   /\ ret' = Returned("randn(i,j)", i, j, << 0, 0 >>)
                \/ /\ rpc' = rpc
                   /\ ret' = Returned("randn(i,j)", i, j, UAdd(r.val, i))
     ELSE LET r == randnRange(m_uState, i, j)
          IN /\ m_uState' = r.state
             /\ ret' = Returned("randn(i,j)", i, j, r.val)
             /\ rpc' = rpc
  /\ UNCHANGED << seeded, notRandomVars >>

RandomNext ==
  \/ \E seed \in Seeds : \E t \in TimerValues : SrandCall(seed, t)
  \/ RandnCall
  \/ \E p \in RangePairs : RandnRangeCall(p[1], p[2])

RandomSpec == Init /\ [][RandomNext]_vars

\* ------------------------------------------------------------------------
\* Properties of CRandom
\* ------------------------------------------------------------------------
\* The 32 bits of the word x, bit 0 the least significant.
Bits(x) ==
  [k \in 0..31 |-> IF k < HalfBits THEN (x[2] \div Pow2(k)) % 2 = 1
                   ELSE (x[1] \div Pow2(k - HalfBits)) % 2 = 1]

\* b shifted left by n places; the bits shifted beyond bit 31 are dropped.
BitsShl(b, n) == [k \in 0..31 |-> IF k >= n THEN b[k - n] ELSE FALSE]

\* b shifted right by n places.
BitsShr(b, n) == [k \in 0..31 |-> IF k + n <= 31 THEN b[k + n] ELSE FALSE]

BitsXor(a, b) == [k \in 0..31 |-> a[k] # b[k]]

\* x is a word of 32 bits.
IsUINT(x) == x[1] \in 0..(HalfMod - 1) /\ x[2] \in 0..(HalfMod - 1)

\* A call of randn() has just returned.
RandnReturned == nDraws' = nDraws + 1 /\ ret'.fn = "randn"

\* C19: randn() takes t = s3 xor (s3 << 11), then t = t xor (t >> 8), then
\* t = t xor s0 xor (s0 >> 19) with the s0 of before the call, leaves the
\* state (t, s0, s1, s2) and returns t; the value returned, the state words
\* and the values shifted are words of 32 bits.
C19_Xorshift128 ==
  [][RandnReturned =>
       LET s0 == Bits(m_uState[1])
           s1 == Bits(m_uState[2])
           s2 == Bits(m_uState[3])
           s3 == Bits(m_uState[4])
           t1 == BitsXor(s3, BitsShl(s3, 11))
           t2 == BitsXor(t1, BitsShr(t1, 8))
           t3 == BitsXor(BitsXor(t2, s0), BitsShr(s0, 19))
       IN /\ Bits(ret'.val) = t3
          /\ [k \in 1..4 |-> Bits(m_uState'[k])] = << t3, s0, s1, s2 >>
          /\ IsUINT(ret'.val)
          /\ \A k \in 1..4 : IsUINT(m_uState'[k])
          /\ IsUINT(UShl11(m_uState[4]))
          /\ IsUINT(UShr8(UXor(m_uState[4], UShl11(m_uState[4]))))
          /\ IsUINT(UShr19(m_uState[1]))]_vars

\* C19 witness: the second call of randn() after srand with the values 41,
\* 18467, 6334, 26500 has returned 0x349E0826; word 3 of the seeded state,
\* 0xF4020F28, loses bits in the shift left, and the first value returned,
\* 0xE49F344E, is word 1 of the state.
C19_Witness ==
  /\ rpc = "ready" /\ nDraws = 2
  /\ ret.fn = "randn"
  /\ ret.val = << 13470, 2086 >>
  /\ m_uState = << << 13470, 2086 >>, << 58527, 13390 >>, << 0, 41 >>, << 11, 36251 >> >>

\* A call of randn(i, j) with i <= j has just been made.
RandnRangeCalled == nDraws' = nDraws + 1 /\ ret'.fn = "randn(i,j)" /\ ULeq(ret'.i, ret'.j)

\* C20: for all 32-bit i <= j, the full range i = 0, j = 2^32 - 1 included,
\* randn(i, j) returns a value r with i <= r <= j.
C20_RangeResult ==
  [][RandnRangeCalled =>
       /\ rpc' = "ready"
       /\ ULeq(ret'.i, ret'.val)
       /\ ULeq(ret'.val, ret'.j)]_vars

\* The state k calls of randn() lead to from the state u.
RECURSIVE DrawN(_, _)
DrawN(u, k) == IF k = 0 THEN u ELSE randn(DrawN(u, k - 1)).state

\* The values k calls of randn() return from the state u, in order.
RECURSIVE ValuesN(_, _)
ValuesN(u, k) ==
  IF k = 0 THEN <<>>
  ELSE Append(ValuesN(u, k - 1), randn(DrawN(u, k - 1)).val)

\* C21: srand(seed) with seed >= 0, 0 included, sets the state to a function
\* of the seed alone, whatever the state and the timer were, and the state
\* after any number of draws is that of the same number of draws from it,
\* so the values returned repeat from run to run; srand with any negative
\* seed sets the state seeded from the low 15 bits of some timer value, and
\* the call returns as every other does.
C21_Seeding ==
  /\ [](seeded.seed >= 0 =>
          m_uState = DrawN(srand(CRand(seeded.seed)), nDraws - seeded.at))
  /\ [][seeded' # seeded =>
          /\ rpc' = "ready"
          /\ seeded'.seed >= 0 => m_uState' = srand(CRand(seeded'.seed))
          /\ seeded'.seed < 0 =>
               m_uState' \in { srand(CRand(t % 32768)) : t \in TimerValues }]_vars

\* C21 witness: after draws from a timer-seeded state, srand(0) has been
\* called and two values drawn, the second by randn(); they are the first
\* two values of every generator seeded with 0.
C21_Witness ==
  /\ seeded = [seed |-> 0, at |-> 1]
  /\ nDraws = 3
  /\ ret.fn = "randn"
  /\ ret.val = ValuesN(srand(<<38, 7719, 21238, 2437>>), 2)[2]
  /\ m_uState[2] = ValuesN(srand(<<38, 7719, 21238, 2437>>), 2)[1]

\* ------------------------------------------------------------------------
\* Generate and Draw run to completion
\* ------------------------------------------------------------------------
\* Productions with a right-hand side that contains its own left-hand side,
\* and with empty right-hand sides.
TermProductions ==
  { LProduction("A", <<"A", "A">>, 100),
    LProduction("B", <<>>, 100),
    LProduction("F", <<>>, 30) }

\* The steps of Generate after its entry.
GenerateSteps == PassBegin \/ RewriteSymbol \/ PassEnd \/ GenerateReturn

\* The steps of Draw after its entry.
DrawSteps ==
  \/ Forward
  \/ TurnPlus
  \/ TurnMinus
  \/ Push
  \/ Pop
  \/ PopEmpty
  \/ OtherSymbol
  \/ MeasureDone
  \/ DrawDone

\* A system is set up, generated once and drawn once.
TermNext ==
  \/ /\ nCalls = 0 /\ tpc = "idle"
     /\ \/ \E rule \in TermProductions : AddRule(rule)
        \/ \E omega \in Roots : SetRoot(omega)
        \/ \E n \in 0..MaxGen : GenerateCall(n)
  \/ GenerateSteps
  \/ \E dsc \in TurtleDescs : DrawCall(dsc)
  \/ DrawSteps

\* Generate and Draw are function calls on one thread: once entered, each
\* takes its next step until it returns.
TermSpec ==
  /\ (Init \/ TurtleInit)
  /\ [][TermNext]_vars
  /\ WF_vars(GenerateSteps)
  /\ WF_vars(DrawSteps)

\* Generate(n) returns, after exactly n passes, each of which reads each
\* symbol of its source once, from left to right.
GenerateTerminates ==
  /\ Generating ~> pc = "done"
  /\ [][(pc = "generations" /\ pc' = "done") => iGen = m_nGenerations]_vars
  /\ [][(pc = "generations" /\ pc' = "chars") => (iGen' = iGen /\ iChar' = 0)]_vars
  /\ [][(pc = "chars" /\ pc' = "chars") => iChar' = iChar + 1]_vars
  /\ [][(pc = "chars" /\ pc' = "generations") =>
          (iChar = Len(m_wstrBuffer[pSrc]) /\ iGen' = iGen + 1)]_vars

\* C22: Generate(n) returns for every root, rule set and n after exactly n
\* passes that read each source symbol once, and Draw returns after two
\* passes that each read each symbol of the result string once.
C22_Termination ==
  /\ GenerateTerminates
  /\ tpc = "loop" ~> tpc = "done"
  /\ [][tpc = "loop" => (jSym' = jSym + 1 \/ (jSym = Len(GetString) /\ jSym' \in { 0, jSym }))]_vars
  /\ [](tpc = "done" => \A p \in 0..1 : Len(trace[p]) = Len(GetString) + 1)

\* ------------------------------------------------------------------------
\* Consumption of the PRNG by Generate
\* ------------------------------------------------------------------------
\* Number of symbols of s that have a production list in map.
NumWithList(s, map) == Cardinality({ k \in 1..Len(s) : s[k] \in DOMAIN map })

\* Number of symbols with a production list in generations 0 .. g - 1 of
\* the current system, drawn from the state at the entry of Generate.
RECURSIVE ListedBefore(_)
ListedBefore(g) ==
  IF g = 0 THEN 0
  ELSE ListedBefore(g - 1)
       + NumWithList(Generation(m_wstrRoot, m_mapRules, uEntry, g - 1).str, m_mapRules)

\* Number of symbols with a production list read since the entry of the
\* Generate that is running.
Consumed ==
  IF pc = "chars"
  THEN ListedBefore(iGen) + NumWithList(SubSeq(m_wstrBuffer[pSrc], 1, iChar), m_mapRules)
  ELSE ListedBefore(iGen)

\* One source symbol is rewritten.
RewriteStep == pc = "chars" /\ pc' = "chars" /\ iChar' = iChar + 1

\* C23: Generate draws one value for each source symbol with a production
\* list, in the order of the symbols and of the generations, and none for a
\* symbol without one: the PRNG state is that of as many draws from the
\* state at entry as symbols with a list have been read; the value drawn at
\* a symbol selects its production; nothing else in the system changes the
\* PRNG state, so the next Generate draws on from where the last one stopped.
C23_ConsumptionOrder ==
  /\ [](Generating => m_uState = DrawN(uEntry, Consumed))
  /\ [][RewriteStep =>
          IF CurChar \in DOMAIN m_mapRules
          THEN /\ m_uState' = randn(m_uState).state
               /\ LET k == SelectRule(m_mapRules[CurChar], randn(m_uState).val, 1, FZero)
                  IN m_wstrBuffer'[pDest] =
                       m_wstrBuffer[pDest]
                       \o (IF k = 0 THEN << CurChar >> ELSE m_mapRules[CurChar][k].m_wstrRHS)
          ELSE /\ m_uState' = m_uState
               /\ m_wstrBuffer'[pDest] = m_wstrBuffer[pDest] \o << CurChar >>]_vars
  /\ [][~RewriteStep => m_uState' = m_uState]_vars
  /\ [][pc' = "generations" /\ pc \in { "idle", "done" } => uEntry' = m_uState]_vars

\* C23 witness: on root FF with F->A (0.3) and F->B (0.7), seeded from the
\* rand() values 41, 18467, 6334, 26500, Generate(1) has returned twice; the
\* first call took draws 1 and 2, the second draws 3 and 4.
C23_Witness ==
  /\ pc = "done" /\ nCalls = 2 /\ m_nGenerations = 1
  /\ m_wstrRoot = <<"F", "F">>
  /\ m_mapRules = ("F" :> << RuleA30, RuleB70 >>)
  /\ uEntry = DrawN(srand(<<41, 18467, 6334, 26500>>), 2)
  /\ m_uState = DrawN(srand(<<41, 18467, 6334, 26500>>), 4)
  /\ m_uState # uEntry

\* ------------------------------------------------------------------------
\* The rule string
\* ------------------------------------------------------------------------
\* A probability in hundredths with two digits after the decimal point.
TwoDecimals(fProb) ==
  LET digit == [k \in 0..9 |-> << "0", "1", "2", "3", "4", "5", "6", "7", "8", "9" >>[k + 1]]
  IN << digit[fProb \div 100], ".", digit[(fProb \div 10) % 10], digit[fProb % 10] >>

\* The line of a production in the rule string, with or without suffix.
ShownLine(rule, suffix) ==
  << rule.m_chLHS, " ", "->", " " >> \o rule.m_wstrRHS
  \o (IF suffix THEN << " ", "(" >> \o TwoDecimals(rule.m_fProb) \o << ")" >> ELSE <<>>)
  \o << "\n" >>

\* The step appends rule to the list of its left-hand side.
RuleAdded(rule) ==
  LET ch == rule.m_chLHS
      before == IF ch \in DOMAIN m_mapRules THEN m_mapRules[ch] ELSE <<>>
  IN /\ ch \in DOMAIN m_mapRules'
     /\ m_mapRules'[ch] = before \o << rule >>
     /\ \A c \in DOMAIN m_mapRules : c # ch => m_mapRules'[c] = m_mapRules[c]

\* Number of end-of-line characters of s.
NumLines(s) == Cardinality({ k \in 1..Len(s) : s[k] = "\n" })

\* C24: each AddRule appends one line 'lhs -> rhs' to the end of the rule
\* string, leaving the lines before it as they were, and the line carries
\* the probability with two decimals exactly when the stochastic flag is set
\* once the rule has been added.
C24_RuleString ==
  [][(m_mapRules' # m_mapRules /\ m_mapRules' # << >>) =>
       \E rule \in Productions :
         /\ RuleAdded(rule)
         /\ m_wstrRuleString' = m_wstrRuleString \o ShownLine(rule, m_bStochastic')
         /\ NumLines(m_wstrRuleString') = NumLines(m_wstrRuleString) + 1]_vars

\* C24 witness: A->AA was added before the first stochastic production and
\* has no suffix; F->A (0.3) added after it has one.
C24_Witness ==
  /\ m_mapRules = ("A" :> << RuleAA >>) @@ ("F" :> << RuleA30 >>)
  /\ IsStochastic
  /\ m_wstrRuleString =
       << "A", " ", "->", " ", "A", "A", "\n",
          "F", " ", "->", " ", "A", " ", "(", "0", ".", "3", "0", ")", "\n" >>

\* ------------------------------------------------------------------------
\* CMain and the window procedure
\* ------------------------------------------------------------------------
\* The L-system types, from IDM_LSYS_BRANCHING to IDM_LSYS_HEXGOSPER.
LSysTypes ==
  { "IDM_LSYS_BRANCHING", "IDM_LSYS_PLANT_A", "IDM_LSYS_PLANT_B", "IDM_LSYS_PLANT_C",
    "IDM_LSYS_PLANT_D", "IDM_LSYS_PLANT_E", "IDM_LSYS_PLANT_F", "IDM_LSYS_HEXGOSPER" }

\* CMain::SetRules: the argument of SetRoot for the type t.
TypeRoot(t) ==
  CASE t \in { "IDM_LSYS_BRANCHING", "IDM_LSYS_PLANT_A", "IDM_LSYS_PLANT_B",
               "IDM_LSYS_PLANT_C" } -> << "F" >>
    [] t \in { "IDM_LSYS_PLANT_D", "IDM_LSYS_PLANT_E", "IDM_LSYS_PLANT_F" } -> << "X" >>
    [] t = "IDM_LSYS_HEXGOSPER" -> << "L" >>

RuleFF == LProduction("F", << "F", "F" >>, ProbOne)

\* CMain::SetRules: the arguments of AddRule for the type t, in order.
TypeRules(t) ==
  CASE t = "IDM_LSYS_BRANCHING" ->
         << LProduction("F", << "F", "[", "+", "F", "]", "F", "[", "-", "F", "]", "F" >>, 33),
            LProduction("F", << "F", "[", "+", "F", "]", "F" >>, 33),
            LProduction("F", << "F", "[", "-", "F", "]", "F" >>, 34) >>
    [] t = "IDM_LSYS_PLANT_A" ->
         << LProduction("F", << "F", "[", "+", "F", "]", "F", "[", "-", "F", "]", "F" >>,
                        ProbOne) >>
    [] t = "IDM_LSYS_PLANT_B" ->
         << LProduction("F", << "F", "[", "+", "F", "]", "F", "[", "-", "F", "]", "[", "F",
                                "]" >>, ProbOne) >>
    [] t = "IDM_LSYS_PLANT_C" ->
         << LProduction("F", << "F", "F", "-", "[", "-", "F", "+", "F", "+", "F", "]", "+",
                                "[", "+", "F", "-", "F", "-", "F", "]" >>, ProbOne) >>
    [] t = "IDM_LSYS_PLANT_D" ->
         << LProduction("X", << "F", "[", "+", "X", "]", "F", "[", "-", "X", "]", "+", "X" >>,
                        ProbOne),
            RuleFF >>
    [] t = "IDM_LSYS_PLANT_E" ->
         << LProduction("X", << "F", "[", "+", "X", "]", "[", "-", "X", "]", "F", "X" >>,
                        ProbOne),
            RuleFF >>
    [] t = "IDM_LSYS_PLANT_F" ->
         << LProduction("X", << "F", "-", "[", " ", "[", "X", "]", "+", "X", "]", "+", "F",
                                "[", "+", "F", "X", "]", "-", "X" >>, ProbOne),
            RuleFF >>
    [] t = "IDM_LSYS_HEXGOSPER" -> << GosperL, GosperR >>

\* CMain::Generate: the number of generations for the type t, held to the
\* largest argument of Generate the model runs.
nNumGenerations(t) ==
  Min(CASE t \in { "IDM_LSYS_PLANT_D", "IDM_LSYS_PLANT_E" } -> 7
        [] t = "IDM_LSYS_BRANCHING" -> 6
        [] OTHER -> 5,
      MaxGen)

\* The members of LSystem that Clear, SetRoot and AddRule write.
LSystemOf(root, map, str, buf, stoch) ==
  [m_wstrRoot |-> root, m_mapRules |-> map, m_wstrRuleString |-> str,
   m_wstrBuffer |-> buf, m_bStochastic |-> stoch]

m_cLSystem ==
  LSystemOf(m_wstrRoot, m_mapRules, m_wstrRuleString, m_wstrBuffer, m_bStochastic)

\* What LSystem::Clear leaves.
Cleared == LSystemOf(<<>>, << >>, <<>>, EmptyBuffers, FALSE)

\* What LSystem::SetRoot(omega) makes of the L-system g.
WithRoot(g, omega) ==
  [g EXCEPT !.m_wstrRoot = omega, !.m_wstrRuleString = RootLine(omega) \o @]

\* What LSystem::AddRule(rule) makes of the L-system g.
WithRule(g, rule) ==
  LET stoch == IF rule.m_fProb < ProbOne THEN TRUE ELSE g.m_bStochastic
      line == << rule.m_chLHS >> \o << " ", "->", " " >> \o rule.m_wstrRHS
              \o (IF stoch THEN << " ", "(" >> \o Fixed2(rule.m_fProb) \o << ")" >>
                  ELSE << >>)
              \o << "\n" >>
  IN [g EXCEPT !.m_bStochastic = stoch,
               !.m_mapRules =
                  IF rule.m_chLHS \notin DOMAIN @
                  THEN (rule.m_chLHS :> << rule >>) @@ @
                  ELSE [@ EXCEPT ![rule.m_chLHS] = Append(@, rule)],
               !.m_wstrRuleString = @ \o line]

RECURSIVE WithRules(_, _)
WithRules(g, rules) ==
  IF rules = <<>> THEN g ELSE WithRules(WithRule(g, Head(rules)), Tail(rules))

\* The steps of Clear, SetRoot and AddRule are those of the three operators
\* above.
SettingsAgree ==
  /\ [][Clear => m_cLSystem' = Cleared]_vars
  /\ [][\A omega \in Roots : SetRoot(omega) => m_cLSystem' = WithRoot(m_cLSystem, omega)]_vars
  /\ [][\A rule \in Productions :
          AddRule(rule) => m_cLSystem' = WithRule(m_cLSystem, rule)]_vars

\* CMain::SetRules: the L-system it leaves for the type t.
SetRules(t) == WithRules(WithRoot(Cleared, TypeRoot(t)), TypeRules(t))

\* Entry 0 of the File menu after EnableGenerateMenuEntry, with the
\* comparison made to IDM_LSYS_HEXGOSPER.
EnableGenerateMenuEntry_gosper(t) ==
  IF t = "IDM_LSYS_HEXGOSPER" THEN "MF_ENABLED" ELSE "MF_GRAYED"

\* CMain::EnableGenerateMenuEntry: entry 0 of the File menu for the type t.
EnableGenerateMenuEntry(t) ==
  IF t = "IDM_LSYS_BRANCHING" THEN "MF_ENABLED" ELSE "MF_GRAYED"

\* CMain::Draw(): it builds the descriptor of the type t with the point
\* size of the thickness flag, and Draw(const TurtleDesc&) clears the bitmap
\* and m_rectDirty and draws the string s.  The bitmap and the rectangle are
\* a function of the three, which the canvas records.
Draw(s, t, thick) == [s |-> s, type |-> t, m_fPointSize |-> IF thick THEN 2 ELSE 1]

\* CMain::Generate then CMain::Draw() on the L-system g of type t.
GenerateDraw(g, t) ==
  LET n == nNumGenerations(t)
      run == GenerateRun(g.m_wstrBuffer, g.m_wstrRoot, g.m_mapRules, m_uState, n)
  IN /\ m_wstrRoot' = g.m_wstrRoot
     /\ m_mapRules' = g.m_mapRules
     /\ m_wstrRuleString' = g.m_wstrRuleString
     /\ m_bStochastic' = g.m_bStochastic
     /\ m_nGenerations' = n
     /\ m_wstrBuffer' = run.buf
     /\ m_pResult' = run.result
     /\ m_uState' = run.u
     /\ uEntry' = m_uState
     /\ nCalls' = nCalls + 1
     /\ pc' = "done"
     /\ UNCHANGED localVars
     /\ canvas' = Draw(run.buf[run.result], t, m_bThickLines)

\* A WM_COMMAND with the menu identifier id reaches WndProc.
Command(id) ==
  /\ pc \in { "idle", "done" }
  /\ nCommands < MaxCommands
  /\ nCommands' = nCommands + 1
  /\ command' = id

\* WM_COMMAND of an L-system type: CMain::SetType(t).
SetTypeCommand(t) ==
  /\ Command(t)
  /\ IF m_nType # t
     THEN /\ m_nType' = t
          /\ fileMenu' = EnableGenerateMenuEntry(t)
          /\ GenerateDraw(SetRules(t), t)
     ELSE UNCHANGED << lsystemVars, m_nType, fileMenu, canvas >>
  /\ UNCHANGED << m_bThickLines, m_bShowRules, turtleVars, randomVars >>

\* WM_COMMAND IDM_FILE_GENERATE.
GenerateCommand ==
  /\ Command("IDM_FILE_GENERATE")
  /\ IF IsStochastic
     THEN GenerateDraw(m_cLSystem, m_nType)
     ELSE UNCHANGED << lsystemVars, canvas >>
  /\ UNCHANGED << m_nType, fileMenu, m_bThickLines, m_bShowRules, turtleVars,
                  randomVars >>

\* WM_COMMAND IDM_FILE_SAVE: the bitmap is written to a file.
SaveCommand ==
  /\ Command("IDM_FILE_SAVE")
  /\ UNCHANGED << lsystemVars, m_nType, fileMenu, m_bThickLines, m_bShowRules,
                  canvas, turtleVars, randomVars >>

\* ToggleLineThickness that flips the flag and leaves the bitmap as it is.
ThickLinesCommand_noredraw ==
  /\ Command("IDM_VIEW_THICKLINES")
  /\ m_bThickLines' = ~m_bThickLines
  /\ UNCHANGED canvas
  /\ UNCHANGED << lsystemVars, m_nType, fileMenu, m_bShowRules, turtleVars,
                  randomVars >>

\* WM_COMMAND IDM_VIEW_THICKLINES: CMain::ToggleLineThickness.
ThickLinesCommand ==
  /\ Command("IDM_VIEW_THICKLINES")
  /\ m_bThickLines' = ~m_bThickLines
  /\ canvas' = Draw(GetString, m_nType, m_bThickLines')
  /\ UNCHANGED << lsystemVars, m_nType, fileMenu, m_bShowRules, turtleVars,
                  randomVars >>

\* WM_COMMAND IDM_VIEW_RULES: CMain::ToggleShowRules.
ShowRulesCommand ==
  /\ Command("IDM_VIEW_RULES")
  /\ m_bShowRules' = ~m_bShowRules
  /\ UNCHANGED << lsystemVars, m_nType, fileMenu, m_bThickLines, canvas, turtleVars,
                  randomVars >>

\* The state the constructor of CMain leaves: SetRules, the menus, Generate
\* and Draw for the type of the member initialiser.
MenuInit ==
  /\ \E q \in RandSeqs :
       LET g == SetRules("IDM_LSYS_PLANT_A")
           n == nNumGenerations("IDM_LSYS_PLANT_A")
           run == GenerateRun(g.m_wstrBuffer, g.m_wstrRoot, g.m_mapRules, srand(q), n)
       IN /\ m_wstrRoot = g.m_wstrRoot
          /\ m_mapRules = g.m_mapRules
          /\ m_wstrRuleString = g.m_wstrRuleString
          /\ m_bStochastic = g.m_bStochastic
          /\ m_nGenerations = n
          /\ m_wstrBuffer = run.buf
          /\ m_pResult = run.result
          /\ m_uState = run.u
          /\ uEntry = srand(q)
          /\ canvas = Draw(run.buf[run.result], "IDM_LSYS_PLANT_A", FALSE)
  /\ pc = "done"
  /\ pSrc = 0 /\ pDest = 1 /\ iGen = 0 /\ iChar = 0
  /\ nCalls = 1
  /\ m_nType = "IDM_LSYS_PLANT_A"
  /\ m_bThickLines = FALSE
  /\ m_bShowRules = TRUE
  /\ fileMenu = EnableGenerateMenuEntry("IDM_LSYS_PLANT_A")
  /\ nCommands = 0
  /\ command = "none"
  /\ NoTurtle
  /\ NoRandom

MenuNext ==
  \/ \E t \in LSysTypes : SetTypeCommand(t)
  \/ GenerateCommand
  \/ SaveCommand
  \/ ThickLinesCommand
  \/ ShowRulesCommand

MenuSpec == MenuInit /\ [][MenuNext]_vars

\* ------------------------------------------------------------------------
\* Properties of the menu commands
\* ------------------------------------------------------------------------
\* The last step handled the WM_COMMAND with the identifier id.
Handled(id) == nCommands' = nCommands + 1 /\ command' = id

\* C25: after the constructor and after every menu command, the Generate
\* entry of the File menu is enabled exactly when IsStochastic() is true;
\* the IDM_FILE_GENERATE handler generates once more and redraws when the
\* system is stochastic, and leaves the L-system, its string and the
\* drawing as they are when it is deterministic.
C25_GenerateEntry ==
  /\ [](fileMenu = "MF_ENABLED" <=> IsStochastic)
  /\ [](fileMenu \in { "MF_ENABLED", "MF_GRAYED" })
  /\ [][Handled("IDM_FILE_GENERATE") =>
          IF IsStochastic
          THEN /\ nCalls' = nCalls + 1
               /\ GetString' = GenerateResult(m_wstrBuffer, m_wstrRoot, m_mapRules,
                                              m_uState, nNumGenerations(m_nType))
               /\ canvas' = Draw(GetString', m_nType, m_bThickLines)
          ELSE UNCHANGED << lsystemVars, canvas >>]_vars

\* The stochastic type has been selected, and a Generate command has
\* generated its string once more.
C25_Witness ==
  /\ command = "IDM_FILE_GENERATE"
  /\ IsStochastic
  /\ fileMenu = "MF_ENABLED"
  /\ nCalls = 3
  /\ nCommands = 2

\* ------------------------------------------------------------------------
\* Step length and rectangle of the turtle interpreter
\* ------------------------------------------------------------------------
\* l after k executions of len *= m.
RECURSIVE Scaled(_, _, _)
Scaled(l, m, k) == IF k = 0 THEN l ELSE FMul(Scaled(l, m, k - 1), m)

\* C26: while Draw interprets a string without unmatched ']', in each pass
\* the current step length is the initial length of the descriptor
\* multiplied by the length multiplier once for every frame on the stack.
C26_StepLength ==
  (Drawing /\ ~Unmatched(GetString)) =>
    len = Scaled(turtleDesc.m_fLength, turtleDesc.m_fLenMultiplier, Len(stack))

\* The first pass of Draw has ended: the rectangle is measured and the
\* bitmap is created from it.
Measured == (tpc = "loop" /\ iPass = 1) \/ tpc = "done"

CoverLists ==
  { << 33, 33, 34 >>, << 30, 70 >>, << ProbOne >>, << 1, 78, 21 >>,
    << 2, 49, 28, 21 >>, << 60, 60 >>, << 30 >>, << 30, 30 >> }

\* The right-hand side of the k-th production of a list.
CoverRHS(k) == << << "A" >>, << "B" >>, << "C" >>, << "D" >> >>[k]

\* The productions of F with the probabilities probs.
CoverRules(probs) == [k \in 1..Len(probs) |-> LProduction("F", CoverRHS(k), probs[k])]

\* PRNG states the generator passes through, with the value the next
\* randn() returns: 0, 1, 0x80000000, 0xFFFFFF7F, 0xFFFFFF80 and 0xFFFFFFFF.
CoverStates ==
  { << << 0, 2057 >>, << 0, 0 >>, << 0, 0 >>, << 0, 1 >> >>,
    << << 0, 1 >>, << 0, 0 >>, << 0, 0 >>, << 0, 0 >> >>,
    << << 32768, 4096 >>, << 0, 0 >>, << 0, 0 >>, << 0, 0 >> >>,
    << << 65535, 57472 >>, << 0, 0 >>, << 0, 0 >>, << 0, 0 >> >>,
    << << 65535, 57471 >>, << 0, 0 >>, << 0, 0 >>, << 0, 0 >> >>,
    << << 65535, 57344 >>, << 0, 0 >>, << 0, 0 >>, << 0, 0 >> >> }

\* The system after Clear, SetRoot("F") and the AddRule calls of one list,
\* with the PRNG seeded or in one of the states above.
CoverInit ==
  /\ \E probs \in CoverLists :
       LET g == WithRules(WithRoot(Cleared, << "F" >>), CoverRules(probs))
       IN /\ m_wstrRoot = g.m_wstrRoot
          /\ m_mapRules = g.m_mapRules
          /\ m_wstrRuleString = g.m_wstrRuleString
          /\ m_wstrBuffer = g.m_wstrBuffer
          /\ m_bStochastic = g.m_bStochastic
  /\ m_uState \in CoverStates \cup { srand(q) : q \in RandSeqs }
  /\ uEntry = m_uState
  /\ m_pResult = 0
  /\ m_nGenerations = 0
  /\ pc = "idle"
  /\ pSrc = 0 /\ pDest = 1 /\ iGen = 0 /\ iChar = 0
  /\ nCalls = 0
  /\ NoTurtle
  /\ NoRandom
  /\ NoMenu

CoverNext == (\E n \in 0..MaxGen : GenerateCall(n)) \/ GenerateSteps

CoverSpec == CoverInit /\ [][CoverNext]_vars

\* Sum of the probabilities of a production list, in hundredths.
RECURSIVE SumProb(_, _)
SumProb(list, k) == IF k = 0 THEN 0 ELSE SumProb(list, k - 1) + list[k].m_fProb

\* C28: the drawn value lies in [0, 1]; a symbol whose production
\* probabilities sum to at least 1 is rewritten by one of its productions
\* whatever the drawn value, 0 and 1 included; the symbol is copied
\* unchanged only when its probabilities sum to less than 1.
C28_FullCoverage ==
  [][ (AtSymbol /\ CurChar \in DOMAIN m_mapRules) =>
        LET list == m_mapRules[CurChar]
            fRand == randf(randn(m_uState).val)
            sum == SumProb(list, Len(list))
        IN /\ FLeq(FZero, fRand)
           /\ FLeq(fRand, FOne)
           /\ sum >= ProbOne =>
                \E k \in 1..Len(list) :
                  m_wstrBuffer'[pDest] = m_wstrBuffer[pDest] \o list[k].m_wstrRHS
           /\ m_wstrBuffer'[pDest] = m_wstrBuffer[pDest] \o << CurChar >> =>
                sum < ProbOne ]_vars

\* ------------------------------------------------------------------------
\* The generation count
\* ------------------------------------------------------------------------
\* A step of SetRoot, AddRule or Clear.
SettingsStep ==
  \/ \E omega \in Roots : SetRoot(omega)
  \/ \E rule \in Productions : AddRule(rule)
  \/ Clear

\* C29: GetGenerations() is 0 before any Generate and afterwards the
\* argument of the most recent Generate(n), which ran n passes; SetRoot,
\* AddRule and Clear change neither the count nor the PRNG state, so after
\* Clear the count is still that n while the result string is empty.
C29_GenerationCount ==
  /\ [](nCalls = 0 => GetGenerations = 0)
  /\ [][\A n \in 0..MaxGen : GenerateCall(n) => GetGenerations' = n]_vars
  /\ [][(pc = "generations" /\ pc' = "done") => GetGenerations' = iGen]_vars
  /\ [][nCalls' = nCalls => GetGenerations' = GetGenerations]_vars
  /\ [][SettingsStep => UNCHANGED << m_nGenerations, m_uState >>]_vars
  /\ [][Clear => (GetString' = <<>> /\ GetGenerations' = GetGenerations)]_vars

\* Clear has been called after Generate(2): the rules, the root and the
\* result string are empty, and the count is 2.
C29_Witness ==
  /\ pc = "idle"
  /\ nCalls = 1
  /\ m_mapRules = << >>
  /\ m_wstrRoot = <<>>
  /\ GetString = <<>>
  /\ GetGenerations = 2

\* ------------------------------------------------------------------------
\* The drawing and the menu commands
\* ------------------------------------------------------------------------
\* C30: after the constructor and after every menu command, in any order,
\* the bitmap and its rectangle are those Draw makes of the current
\* GetString(), the current type and the current thickness flag: a command
\* that generates a string or flips the thickness flag draws again.  The
\* thick-lines and show-rules toggles, the save command and the selection of
\* the type that is already current leave the L-system and its string as
\* they are, and the last three leave the bitmap as it is too.
C30_NoStaleDrawing ==
  /\ [](canvas = Draw(GetString, m_nType, m_bThickLines))
  /\ [][(GetString' # GetString \/ nCalls' # nCalls \/ m_bThickLines' # m_bThickLines)
          => canvas' = Draw(GetString', m_nType', m_bThickLines')]_vars
  /\ [][Handled("IDM_VIEW_THICKLINES") =>
          /\ UNCHANGED lsystemVars
          /\ m_bThickLines' = ~m_bThickLines
          /\ canvas' = Draw(GetString, m_nType, ~m_bThickLines)]_vars
  /\ [][(Handled("IDM_VIEW_RULES") \/ Handled("IDM_FILE_SAVE") \/ Handled(m_nType))
          => UNCHANGED << lsystemVars, canvas, m_bThickLines, m_nType >>]_vars
  /\ [][\A t \in LSysTypes : (Handled(t) /\ t # m_nType) =>
          /\ m_nType' = t
          /\ nCalls' = nCalls + 1
          /\ canvas' = Draw(GetString', t, m_bThickLines)]_vars

\* The branching type has been selected and the thick-lines command has
\* then drawn its string again with the pen of width 2.
C30_Witness ==
  /\ command = "IDM_VIEW_THICKLINES"
  /\ nCommands = 2
  /\ m_nType = "IDM_LSYS_BRANCHING"
  /\ m_bThickLines
  /\ canvas.m_fPointSize = 2
  /\ canvas.s = GetString
  /\ Len(GetString) > 1

====
